---- MODULE Spec2Model ----
(***************************************************************************)
(* start-wizard: port-conflict detection / resolution and local-stack      *)
(* coordination.  The model follows runStartWizard from the point where    *)
(* the run context has been built (cli.ts, stackPorts computation) to the  *)
(* product hand-off, together with collectPortConflicts,                   *)
(* resolvePortConflictsInteractively and handleLocalStack.                 *)
(*                                                                         *)
(* Strings typed by the user are sequences of one-character strings, so    *)
(* that trimming and Number.parseInt are computed and not assumed.         *)
(***************************************************************************)
EXTENDS Integers, Sequences, FiniteSets, TLC

\* ------------------------------------------------------------------ bounds

\* Process ids the operating system may hold: 1..MaxPid.
MaxPid == 2
\* How many times the operating system may change (a listener dies or a new
\* one appears) while a run is suspended in a prompt.
MaxEnvChanges == 1
\* Longest port plan handed to the collector in the collector's own
\* specification (SpecCollect).
MaxCollectPlanLen == 2
\* How many calls of collectPortConflicts SpecCollect follows.
MaxCollectCalls == 2
\* How many keypresses a selectPrompt call receives in SpecSelect.
MaxKeys == 3
\* Longest list of options handed to selectPrompt in SpecSelect.
MaxOptions == 3
\* Largest timeoutMs handed to waitForPortOpen in SpecWait, in clock ticks.
MaxTimeoutMs == 3
\* Largest intervalMs handed to waitForPortOpen in SpecWait.
MaxIntervalMs == 2
\* Longest time one isPortOpen probe takes in SpecWait.
MaxProbeMs == 1
\* How late the timer of the pause between two probes may fire in SpecWait.
MaxLateMs == 1
\* Largest timeoutMs handed to isPortOpen in SpecProbe; 0 is no timeout.
MaxSocketTimeoutMs == 2

Pids == 1..MaxPid
\* Ports the operating system is inspected on.
Ports == {1, 2}
OptionNames == {"port", "apiPort"}
Modes == {"local", "dev", "prod"}
\* The modes a whole run is followed in.  After enforceProdGuard has let it
\* through, a prod run goes as a dev run does: the driver only ever asks
\* whether the mode is local.
RunModes == {"local", "dev"}

\* --------------------------------------------------------------- strings

Digits == <<"0", "1", "2", "3", "4", "5", "6", "7", "8", "9">>
IsDigit(c) == \E i \in 1..10 : Digits[i] = c
DigitVal(c) == (CHOOSE i \in 1..10 : Digits[i] = c) - 1
IsSpace(c) == c = " "

RECURSIVE TrimLeft(_)
TrimLeft(s) ==
  IF s # <<>> /\ IsSpace(Head(s)) THEN TrimLeft(Tail(s)) ELSE s

RECURSIVE TrimRight(_)
TrimRight(s) ==
  IF s # <<>> /\ IsSpace(s[Len(s)])
  THEN TrimRight(SubSeq(s, 1, Len(s) - 1))
  ELSE s

\* String.prototype.trim
Trim(s) == TrimRight(TrimLeft(s))

RECURSIVE DigitPrefix(_)
DigitPrefix(s) ==
  IF s # <<>> /\ IsDigit(Head(s)) THEN <<Head(s)>> \o DigitPrefix(Tail(s)) ELSE <<>>

RECURSIVE DigitsValue(_, _)
DigitsValue(s, acc) ==
  IF s = <<>> THEN acc ELSE DigitsValue(Tail(s), acc * 10 + DigitVal(Head(s)))

\* Number.parseInt(value, 10): leading white space is skipped, one sign is
\* accepted, the longest run of digits is read and whatever follows is
\* ignored; no digit at all gives NaN.
ParseInt(s) ==
  LET t == TrimLeft(s)
      neg == t # <<>> /\ Head(t) = "-"
      signed == t # <<>> /\ Head(t) \in {"-", "+"}
      body == IF signed THEN Tail(t) ELSE t
      ds == DigitPrefix(body)
  IN IF ds = <<>>
     THEN [nan |-> TRUE, val |-> 0]
     ELSE [nan |-> FALSE,
           val |-> IF neg THEN 0 - DigitsValue(ds, 0) ELSE DigitsValue(ds, 0)]

RECURSIVE NatToString(_)
NatToString(n) ==
  IF n < 10 THEN <<Digits[n + 1]>>
  ELSE NatToString(n \div 10) \o <<Digits[(n % 10) + 1]>>

\* String(n) for an integer n
NumberToString(n) ==
  IF n < 0 THEN <<"-">> \o NatToString(0 - n) ELSE NatToString(n)

\* Number.isFinite of a parsed number
IsFinite(n) == ~n.nan

\* ----------------------------------------------------------------- state

VARIABLES
  mode,              \* baseCtx.mode
  kill,              \* parsed.kill  (--kill)
  yes,               \* parsed.yes   (--yes)
  stdinTTY,          \* process.stdin.isTTY
  stdoutTTY,         \* process.stdout.isTTY
  localStack,        \* config.localStack: [start, stop : BOOLEAN, ports : plan]
  productPlan,       \* product.portPlan(baseCtx)
  options,           \* baseCtx.options: name -> <<>> (unset) or <<value>>
  listening,         \* operating system: port -> set of pids listening on it
  lsofOk,            \* whether the lsof query runs and exits with status 0
  psOk,              \* whether the ps query runs and exits with status 0
  envChanges,        \* operating-system changes made so far during the run
  pc,                \* where the run is
  phase,             \* which step of runStartWizard is running
  level,             \* which resolution pass is running: product, restart, fresh
  idx,               \* index of the conflict the resolver's loop is at
  stackPorts,        \* validated localStack.ports(baseCtx), [] outside local mode
  productPortPlan,   \* the product plan after the stack's ports are filtered out
  productConflicts,  \* result of the product-level collect, mutated in place
  stackConflicts,    \* result of the latest collect on the stack's ports
  error,             \* message of the error that ended the run, "" if none
  trace,             \* what the run has done so far, in order
  collectPlan,       \* SpecCollect: the plan handed to the collector
  collectResults,    \* SpecCollect: results of the calls so far, in order
  collectOs,         \* SpecCollect: operating-system state seen by each call
  call,              \* a library function followed on its own: arguments, locals
  env                \* what that function acts on: processes, stdin, the disk

runVars ==
  <<mode, kill, yes, stdinTTY, stdoutTTY, localStack, productPlan, options,
    envChanges, pc, phase, level, idx, stackPorts, productPortPlan,
    productConflicts, stackConflicts, error, trace>>
osVars == <<listening, lsofOk, psOk>>
collectVars == <<collectPlan, collectResults, collectOs>>
primVars == <<call, env>>
vars == <<runVars, osVars, collectVars, primVars>>

\* No library function is followed on its own.
NoCall == [fn |-> "none"]
NoEnv == [of |-> "none"]

\* ------------------------------------------------------ process inspector

RECURSIVE SortedSeq(_)
SortedSeq(S) ==
  IF S = {} THEN <<>>
  ELSE LET m == CHOOSE x \in S : \A y \in S : x <= y
       IN <<m>> \o SortedSeq(S \ {m})

\* execFileSync('lsof', ['-ti', ':port']): the pids printed one per line.  It
\* throws when lsof is missing and when lsof exits non-zero, which lsof also
\* does when no process has the port.
ExecLsof(os, port) ==
  LET pids == SortedSeq(os.listening[port])
  IN [threw |-> ~os.lsofOk \/ pids = <<>>,
      out |-> IF os.lsofOk
              THEN [i \in 1..Len(pids) |-> NumberToString(pids[i])]
              ELSE <<>>]

\* safeExecFileSync: the command's output, or '' when running it threw.
SafeExecFileSyncNotCatching(r) == r

SafeExecFileSync(r) == IF r.threw THEN [threw |-> FALSE, out |-> <<>>] ELSE r

LsofOutput(os, port) == SafeExecFileSync(ExecLsof(os, port)).out

\* Whether an exception leaves getListeningPidsOnPort.
InspectorRaises(os, port) == SafeExecFileSync(ExecLsof(os, port)).threw

\* getListeningPidsOnPort: the lines of the output read with parseInt, the
\* ones that are not numbers dropped.
GetListeningPidsOnPort(os, port) ==
  LET out == LsofOutput(os, port)
      nums == SelectSeq([i \in 1..Len(out) |-> ParseInt(out[i])], IsFinite)
  IN [i \in 1..Len(nums) |-> nums[i].val]

\* describePid: the command line from ps, or "(unknown)"
DescribePid(os, pid) ==
  IF os.psOk /\ (\E p \in DOMAIN os.listening : pid \in os.listening[p])
  THEN "node server.js"
  ELSE "(unknown)"

\* isPortOpen on 127.0.0.1: true on connect, false on error or timeout
IsPortOpen(os, port) == os.listening[port] # {}

Os == [listening |-> listening, lsofOk |-> lsofOk, psOk |-> psOk]

\* ------------------------------------------------------ conflict collector

\* One iteration of collectPortConflicts' loop over the plan.
CollectEntryDroppingNothing(os, conflicts, entry) ==
  LET pids == GetListeningPidsOnPort(os, entry.port)
  IN Append(conflicts,
            [port |-> entry.port,
             desiredService |-> entry.desiredService,
             flexible |-> entry.flexible,
             optionName |-> entry.optionName,
             listeners |-> [i \in 1..Len(pids) |->
                             [pid |-> pids[i], command |-> DescribePid(os, pids[i])]],
             newPort |-> <<>>])

CollectEntry(os, conflicts, entry) ==
  LET pids == GetListeningPidsOnPort(os, entry.port)
  IN IF Len(pids) = 0 THEN conflicts
     ELSE Append(conflicts,
            [port |-> entry.port,
             desiredService |-> entry.desiredService,
             flexible |-> entry.flexible,
             optionName |-> entry.optionName,
             listeners |-> [i \in 1..Len(pids) |->
                             [pid |-> pids[i], command |-> DescribePid(os, pids[i])]],
             newPort |-> <<>>])

RECURSIVE CollectLoop(_, _, _)
CollectLoop(os, conflicts, plan) ==
  IF plan = <<>> THEN conflicts
  ELSE CollectLoop(os, CollectEntry(os, conflicts, Head(plan)), Tail(plan))

\* The array collectPortConflicts starts from: a fresh one on every call.
\* `earlier` is what the previous call returned.
CollectStartStale(earlier) == earlier

CollectStart(earlier) == <<>>

\* collectPortConflicts(portPlan)
CollectPortConflicts(os, plan, earlier) ==
  CollectLoop(os, CollectStart(earlier), plan)

\* ---------------------------------------------------------------- prompts

\* isInteractive() of ttyPrompts.ts and isTty() of cli.ts
IsInteractiveStdinOnly(stdinT, stdoutT) == stdinT

IsInteractive(stdinT, stdoutT) == stdinT /\ stdoutT

\* What the user may type at a yes/no question.
ConfirmAnswers ==
  {<<>>, <<"y">>, <<"Y">>, <<"y", "e", "s">>, <<"n">>, <<" ">>}

\* String.prototype.toLowerCase on the letters an answer is made of
LowerCase(c) ==
  CASE c = "Y" -> "y"
    [] c = "E" -> "e"
    [] c = "S" -> "s"
    [] c = "N" -> "n"
    [] OTHER -> c

ToLowerCase(s) == [i \in 1..Len(s) |-> LowerCase(s[i])]

\* confirmPrompt's reading of the typed line
ConfirmResult(answer, defaultValue) ==
  LET trimmed == ToLowerCase(Trim(answer))
  IN IF trimmed = <<>> THEN defaultValue
     ELSE trimmed \in {<<"y">>, <<"y", "e", "s">>}

\* What the user may type when asked for a replacement port.
InputAnswers ==
  {<<>>, <<"7">>, <<" ", "7">>, <<"0">>, <<"7", "x">>, <<"-", "3">>, <<"x">>}

\* inputPrompt's reading of the typed line
InputValue(answer, defaultValue) ==
  IF Trim(answer) # <<>> THEN Trim(answer) ELSE defaultValue

\* The validate callback handed to inputPrompt by the resolver:
\* TRUE when the value is rejected ('Port must be a positive number.').
PortRejectedAllowingZero(value) ==
  LET n == ParseInt(value) IN ~IsFinite(n) \/ n.val < 0

PortRejected(value) ==
  LET n == ParseInt(value) IN ~IsFinite(n) \/ n.val <= 0

\* ------------------------------------------------------------- the trace

Ev(op, lv, ports, n) == [op |-> op, lv |-> lv, ports |-> ports, n |-> n]

Range(seq) == {seq[i] : i \in 1..Len(seq)}

PortsOf(plan) == [i \in 1..Len(plan) |-> plan[i].port]
PortSet(plan) == {plan[i].port : i \in 1..Len(plan)}

\* ------------------------------------------------------- runStartWizard

\* The order of runStartWizard's steps once the run context is built.
NextPhaseStackFirst(p) ==
  CASE p = "start" -> "handle_local_stack"
    [] p = "handle_local_stack" -> "product_conflicts"
    [] p = "product_conflicts" -> "product_start"
    [] OTHER -> "done"

NextPhase(p) ==
  CASE p = "start" -> "product_conflicts"
    [] p = "product_conflicts" -> "handle_local_stack"
    [] p = "handle_local_stack" -> "product_start"
    [] OTHER -> "done"

PhaseEntryStartingAgain(p) ==
  CASE p = "product_conflicts" -> "collect_product"
    [] p = "handle_local_stack" -> "stack_entry"
    [] OTHER -> "product_start"

PhaseEntry(p) ==
  CASE p = "product_conflicts" -> "collect_product"
    [] p = "handle_local_stack" -> "stack_entry"
    [] p = "product_start" -> "product_start"
    [] OTHER -> "done"

\* stackPorts of runStartWizard
StackPortsOf(m, ls) == IF m = "local" THEN ls.ports ELSE <<>>

\* The product's port plan as handed to the product-level collect.
ProductPlanFilterKeepingAll(plan, ignore, m) == plan

RECURSIVE ProductPlanFilter(_, _, _)
ProductPlanFilter(plan, ignore, m) ==
  IF plan = <<>> THEN <<>>
  ELSE (IF ~(m = "local" /\ Head(plan).port \in ignore)
        THEN <<Head(plan)>> ELSE <<>>)
       \o ProductPlanFilter(Tail(plan), ignore, m)

cfgVars == <<mode, kill, yes, stdinTTY, stdoutTTY, localStack, productPlan>>

\* The conflicts the running resolution pass works on.
CurConflicts == IF level = "product" THEN productConflicts ELSE stackConflicts

\* An Error is thrown and unwinds to main().catch.
RaiseAndContinue(msg, tr) ==
  /\ error' = msg
  /\ pc' = IF level = "product" THEN "apply_options" ELSE "stack_start"
  /\ trace' = Append(tr, Ev("raise", level, <<>>, 0))

Raise(msg, tr) ==
  /\ error' = msg
  /\ pc' = "failed"
  /\ trace' = Append(tr, Ev("raise", level, <<>>, 0))

\* lines 579-589: stackPorts, stackIgnorePorts and the filtered product plan
BuildPlans ==
  /\ pc = "start"
  /\ stackPorts' = StackPortsOf(mode, localStack)
  /\ productPortPlan' =
       ProductPlanFilter(productPlan, PortSet(StackPortsOf(mode, localStack)), mode)
  /\ phase' = NextPhase("start")
  /\ pc' = PhaseEntry(NextPhase("start"))
  /\ UNCHANGED <<cfgVars, options, envChanges, level, idx, productConflicts,
                 stackConflicts, error, trace, osVars, collectVars,
                 primVars>>

\* line 590: productConflicts = await collectPortConflicts(productPortPlan)
CollectProduct ==
  /\ pc = "collect_product"
  /\ productConflicts' = CollectPortConflicts(Os, productPortPlan, stackConflicts)
  /\ trace' = Append(trace, Ev("collect", "product", PortsOf(productPortPlan), 0))
  /\ level' = "product"
  /\ pc' = "resolve_entry"
  /\ UNCHANGED <<cfgVars, options, envChanges, phase, idx, stackPorts,
                 productPortPlan, stackConflicts, error, osVars, collectVars,
                 primVars>>

\* ---------------------------------- resolvePortConflictsInteractively

\* line 499: forced kill without --yes and without a terminal on stdin
ForcedKillGuardRemoved(k, y, stdinT) == FALSE

ForcedKillGuard(k, y, stdinT) == k /\ ~y /\ ~stdinT

\* Where the caller continues once the resolver has returned.
AfterResolve(lv) == IF lv = "product" THEN "apply_options" ELSE "stack_start"

\* The resolver returns normally.
ResolveReturn(tr) ==
  /\ trace' = Append(tr, Ev("resolve_return", level, PortsOf(CurConflicts), 0))
  /\ pc' = AfterResolve(level)
  /\ error' = error

\* formatPortConflicts: after the heading, one "- port (service) is in use
\* by:" line per conflict, in list order, each followed by its listeners.
\* The summary is kept as the ports those lines name.
FormatPortConflictsFirstOnly(conflicts) == <<conflicts[1].port>>

FormatPortConflicts(conflicts) == [k \in 1..Len(conflicts) |-> conflicts[k].port]

\* line 497: if (!conflicts.length) return
NothingToResolveIgnored(conflicts) == FALSE

NothingToResolve(conflicts) == Len(conflicts) = 0

\* lines 497-504: the empty list, the forced-kill guard, the summary
ResolveEntry ==
  /\ pc = "resolve_entry"
  /\ IF NothingToResolve(CurConflicts)
     THEN ResolveReturn(trace) /\ idx' = idx
     ELSE IF ForcedKillGuard(kill, yes, stdinTTY)
     THEN Raise("--kill in non-interactive mode requires --yes", trace) /\ idx' = idx
     ELSE /\ trace' = Append(trace, Ev("summary", level,
                                        FormatPortConflicts(CurConflicts), 0))
          /\ idx' = 1
          /\ pc' = "conflict_loop"
          /\ error' = error
  /\ UNCHANGED <<cfgVars, options, envChanges, phase, level, stackPorts,
                 productPortPlan, productConflicts, stackConflicts, osVars,
                 collectVars,
                 primVars>>

\* line 506: for (const conflict of conflicts) -- the conflict visited next
NextConflictSkipping(i) == i + 2

NextConflict(i) == i + 1

\* The options offered for a conflict (lines 507-513).
SelectOptionsAlwaysChange(conflict) == <<"kill", "change", "abort">>

SelectOptions(conflict) ==
  <<"kill">> \o (IF conflict.flexible THEN <<"change">> ELSE <<>>) \o <<"abort">>

\* lines 515-516: in forced-kill mode the action is kill and nothing is asked
ActionForcedNever(k) == FALSE

ActionForced(k) == k

\* lines 506, 515-520: the loop head; in forced-kill mode the action is kill,
\* otherwise selectPrompt is called, which throws without a terminal.
ConflictLoop ==
  /\ pc = "conflict_loop"
  /\ IF idx > Len(CurConflicts)
     THEN ResolveReturn(trace)
     ELSE IF ActionForced(kill)
     THEN pc' = "do_kill" /\ UNCHANGED <<trace, error>>
     ELSE IF ~IsInteractive(stdinTTY, stdoutTTY)
     THEN Raise("Cannot prompt without a TTY", trace)
     ELSE /\ trace' = Append(trace, Ev("select", level, <<CurConflicts[idx].port>>, 0))
          /\ pc' = "await_select"
          /\ error' = error
  /\ UNCHANGED <<cfgVars, options, envChanges, phase, level, idx, stackPorts,
                 productPortPlan, productConflicts, stackConflicts, osVars,
                 collectVars,
                 primVars>>

\* lines 542-543: with --yes the kill is taken as confirmed, nothing is asked
KillConfirmSkippedAlways(y) == TRUE

KillConfirmSkipped(y) == y

\* lines 522-549: the user's choice; null is Ctrl+C.
AnswerSelect ==
  /\ pc = "await_select"
  /\ \E choice \in {"kill", "change", "abort", "null"} :
       /\ choice \in {"null"} \cup Range(SelectOptions(CurConflicts[idx]))
       /\ IF choice \in {"abort", "null"}
          THEN Raise("Aborted due to port conflict.", trace)
          ELSE IF choice = "change"
          THEN /\ trace' = Append(trace, Ev("input", level, <<CurConflicts[idx].port>>, 0))
               /\ pc' = "await_input"
               /\ error' = error
          ELSE IF KillConfirmSkipped(yes)
          THEN pc' = "do_kill" /\ UNCHANGED <<trace, error>>
          ELSE IF ~IsInteractive(stdinTTY, stdoutTTY)
          THEN \* confirmPrompt returns its default, false
               Raise("Aborted (user declined to kill processes).", trace)
          ELSE /\ trace' = Append(trace, Ev("confirm", level, <<CurConflicts[idx].port>>, 0))
               /\ pc' = "await_confirm"
               /\ error' = error
  /\ UNCHANGED <<cfgVars, options, envChanges, phase, level, idx, stackPorts,
                 productPortPlan, productConflicts, stackConflicts, osVars,
                 collectVars,
                 primVars>>

\* The conflicts with conflict i's newPort set (conflict.newPort = n).
WithNewPort(conflicts, i, n) == [conflicts EXCEPT ![i].newPort = <<n>>]

\* line 537: `continue` -- after the assignment the loop goes to the next
\* conflict; the kill branch below is not entered.
AfterChangeFallingThrough == [pc |-> "do_kill", idx |-> idx]

AfterChange == [pc |-> "conflict_loop", idx |-> NextConflict(idx)]

\* lines 527-537: the replacement port is read; a rejected value is thrown
\* from inside readline's callback, outside the promise, and ends the process.
AnswerInput ==
  /\ pc = "await_input"
  /\ \E answer \in InputAnswers :
       LET next == InputValue(answer, NumberToString(CurConflicts[idx].port + 1))
       IN IF PortRejected(next)
          THEN /\ error' = "Port must be a positive number."
               /\ pc' = "crashed"
               /\ trace' = Append(trace, Ev("uncaught", level, <<>>, 0))
               /\ UNCHANGED <<idx, productConflicts, stackConflicts>>
          ELSE /\ IF level = "product"
                  THEN /\ productConflicts' =
                            WithNewPort(productConflicts, idx, ParseInt(next).val)
                       /\ UNCHANGED stackConflicts
                  ELSE /\ stackConflicts' =
                            WithNewPort(stackConflicts, idx, ParseInt(next).val)
                       /\ UNCHANGED productConflicts
               /\ trace' = Append(trace, Ev("newPort", level, <<CurConflicts[idx].port>>,
                                            ParseInt(next).val))
               /\ idx' = AfterChange.idx
               /\ pc' = AfterChange.pc
               /\ error' = error
  /\ UNCHANGED <<cfgVars, options, envChanges, phase, level, stackPorts,
                 productPortPlan, osVars, collectVars,
                 primVars>>

\* lines 544-548: the answer to "Kill n process(es) listening on port?"
AnswerConfirm ==
  /\ pc = "await_confirm"
  /\ \E answer \in ConfirmAnswers :
       IF ConfirmResult(answer, FALSE)
       THEN pc' = "do_kill" /\ UNCHANGED <<trace, error>>
       ELSE Raise("Aborted (user declined to kill processes).", trace)
  /\ UNCHANGED <<cfgVars, options, envChanges, phase, level, idx, stackPorts,
                 productPortPlan, productConflicts, stackConflicts, osVars,
                 collectVars,
                 primVars>>

\* The pids killPid is called on for a conflict (lines 551-553).
KillTargetsFirstOnly(conflict) ==
  IF Len(conflict.listeners) = 0 THEN <<>> ELSE <<conflict.listeners[1].pid>>

\* What the loop would kill if it inspected the port again before killing.
KillTargetsListeningNow(conflict) == SortedSeq(listening[conflict.port])

KillTargets(conflict) ==
  [i \in 1..Len(conflict.listeners) |-> conflict.listeners[i].pid]

\* The operating system once the processes in `gone` have exited.
WithoutPids(l, gone) == [p \in DOMAIN l |-> l[p] \ gone]

\* Whether the resolver inspects the port again after the kills (line 554).
RequeryAfterKillSkipped(os, port) == <<>>

RequeryAfterKill(os, port) == GetListeningPidsOnPort(os, port)

\* The listening sockets once the kill loop has run, whether or not the
\* inspection that follows raises: nothing is undone (lines 551-557).
KilledRestored(before, after) == before

KilledStay(before, after) == after

\* lines 551-557: killPid on every listener, then the port is inspected again.
\* The signals are best effort: a process may survive them (it belongs to
\* another user, or has not exited yet when lsof runs).
DoKill ==
  /\ pc = "do_kill"
  /\ LET conflict == CurConflicts[idx]
         targets == KillTargets(conflict)
     IN \E survivors \in SUBSET Range(targets) :
          LET after == WithoutPids(listening, Range(targets) \ survivors)
              remaining ==
                RequeryAfterKill([listening |-> after, lsofOk |-> lsofOk,
                                  psOk |-> psOk], conflict.port)
              killed == trace \o
                [i \in 1..Len(targets) |->
                   Ev("kill", level, <<conflict.port>>, targets[i])] \o
                <<Ev("requery", level, <<conflict.port>>, Len(remaining))>>
          IN /\ listening' = KilledStay(listening, after)
             /\ IF Len(remaining) > 0
                THEN Raise("Port is still in use after kill attempts.", killed)
                     /\ idx' = idx
                ELSE /\ trace' = killed
                     /\ idx' = NextConflict(idx)
                     /\ pc' = "conflict_loop"
                     /\ error' = error
  /\ UNCHANGED <<cfgVars, options, envChanges, phase, level, stackPorts,
                 productPortPlan, productConflicts, stackConflicts, lsofOk, psOk,
                 collectVars,
                 primVars>>

\* ---------------------------------------------- back in runStartWizard

\* Whether a conflict's new port is written back (line 599).
WritesOption(conflict) == conflict.newPort # <<>> /\ conflict.optionName # ""

RECURSIVE ApplyNewPorts(_, _)
\* lines 598-602: the loop writing reassigned ports into baseCtx.options
ApplyNewPorts(opts, conflicts) ==
  IF conflicts = <<>> THEN opts
  ELSE ApplyNewPorts(
         IF WritesOption(Head(conflicts))
         THEN [opts EXCEPT ![Head(conflicts).optionName] = Head(conflicts).newPort]
         ELSE opts,
         Tail(conflicts))

RECURSIVE OptionWrites(_)
OptionWrites(conflicts) ==
  IF conflicts = <<>> THEN <<>>
  ELSE (IF WritesOption(Head(conflicts))
        THEN <<Ev("write_option", Head(conflicts).optionName,
                  <<Head(conflicts).port>>, Head(conflicts).newPort[1])>>
        ELSE <<>>)
       \o OptionWrites(Tail(conflicts))

ApplyOptions ==
  /\ pc = "apply_options"
  /\ options' = ApplyNewPorts(options, productConflicts)
  /\ trace' = trace \o OptionWrites(productConflicts)
  /\ phase' = NextPhase("product_conflicts")
  /\ pc' = PhaseEntry(NextPhase("product_conflicts"))
  /\ UNCHANGED <<cfgVars, envChanges, level, idx, stackPorts, productPortPlan,
                 productConflicts, stackConflicts, error, osVars, collectVars,
                 primVars>>

\* ------------------------------------------------------ handleLocalStack

\* lines 444-445: the coordinator acts only in local mode with a start routine
StackEngagedWithoutStart(m, ls) == m = "local"

StackEngaged(m, ls) == m = "local" /\ ls.start

RECURSIVE ProbedPorts(_, _)
\* lines 451-456: the ports isPortOpen is called on, up to the first open one
ProbedPorts(os, plan) ==
  IF plan = <<>> THEN <<>>
  ELSE <<Head(plan).port>> \o
       (IF IsPortOpen(os, Head(plan).port) THEN <<>> ELSE ProbedPorts(os, Tail(plan)))

AnyUpWhenNothingProbed(os, plan) ==
  plan = <<>> \/ \E i \in 1..Len(plan) : IsPortOpen(os, plan[i].port)

AnyUp(os, plan) == \E i \in 1..Len(plan) : IsPortOpen(os, plan[i].port)

\* line 492: a running stack is reused when there is no terminal
NonInteractiveReuseDropped(anyUp, tty) == FALSE

NonInteractiveReuse(anyUp, tty) == anyUp /\ ~tty

\* handleLocalStack returns to runStartWizard.
StackReturn(tr, ignore) ==
  /\ trace' = Append(tr, Ev("stack_return", "stack", SortedSeq(ignore), 0))
  /\ phase' = NextPhase("handle_local_stack")
  /\ pc' = PhaseEntry(NextPhase("handle_local_stack"))
  /\ error' = error

\* The probes made, with 1 when one of them found its port open.
ProbeEvents(os, plan) ==
  IF plan = <<>> THEN <<>>
  ELSE <<Ev("probe", "stack", ProbedPorts(os, plan),
            IF AnyUp(os, plan) THEN 1 ELSE 0)>>

\* lines 497-503 with part_000 120-122: shouldStart is true without a question
\* when yes is set, and when there is no terminal, where confirmPrompt
\* returns its defaultValue, here true
StartUnattendedOnlyWithYes(y, tty) == y

StartUnattended(y, tty) == y \/ ~tty

\* lines 444-503: the guards, the probes and the branch taken
StackEntry ==
  /\ pc = "stack_entry"
  /\ IF ~StackEngaged(mode, localStack)
     THEN StackReturn(trace, {}) /\ level' = level
     ELSE LET probed == trace \o ProbeEvents(Os, stackPorts)
              anyUp == AnyUp(Os, stackPorts)
              tty == IsInteractive(stdinTTY, stdoutTTY)
          IN IF anyUp /\ tty
             THEN /\ trace' = Append(probed, Ev("select", "stack", <<>>, 0))
                  /\ pc' = "await_stack_select"
                  /\ UNCHANGED <<phase, level, error>>
             ELSE IF NonInteractiveReuse(anyUp, tty)
             THEN StackReturn(probed, PortSet(stackPorts)) /\ level' = level
             ELSE IF StartUnattended(yes, tty)
             THEN \* --yes, or confirmPrompt returning its default (true)
                  /\ trace' = probed
                  /\ level' = "fresh"
                  /\ pc' = "stack_collect"
                  /\ UNCHANGED <<phase, error>>
             ELSE /\ trace' = Append(probed, Ev("confirm", "stack", <<>>, 0))
                  /\ pc' = "await_start_confirm"
                  /\ UNCHANGED <<phase, level, error>>
  /\ UNCHANGED <<cfgVars, options, envChanges, idx, stackPorts, productPortPlan,
                 productConflicts, stackConflicts, osVars, collectVars,
                 primVars>>

\* Where the restart branch continues after localStack.stop (lines 476-481).
AfterStopSkippingResolve == "stack_start"

AfterStop == "stack_collect"

\* lines 476-478: restart calls localStack.stop when the config provides it
RestartFirstStepSkippingStop(ls) == AfterStop

RestartFirstStep(ls) == IF ls.stop THEN "stack_stop" ELSE AfterStop

\* lines 471-478: reuse, restart or Ctrl+C
AnswerStackSelect ==
  /\ pc = "await_stack_select"
  /\ \E choice \in {"reuse", "restart", "null"} :
       IF choice = "null"
       THEN /\ error' = "Aborted."
            /\ pc' = "failed"
            /\ trace' = Append(trace, Ev("raise", "stack", <<>>, 0))
            /\ UNCHANGED <<phase, level>>
       ELSE IF choice = "reuse"
       THEN StackReturn(trace, PortSet(stackPorts)) /\ level' = level
       ELSE /\ level' = "restart"
            /\ pc' = RestartFirstStep(localStack)
            /\ UNCHANGED <<phase, error, trace>>
  /\ UNCHANGED <<cfgVars, options, envChanges, idx, stackPorts, productPortPlan,
                 productConflicts, stackConflicts, osVars, collectVars,
                 primVars>>

\* line 477: await config.localStack.stop(baseCtx).  The routine is external:
\* it may stop any of the processes holding the stack's ports, and it may throw.
StackStop ==
  /\ pc = "stack_stop"
  /\ \E ok \in BOOLEAN :
     \E stopped \in SUBSET UNION {listening[q] : q \in PortSet(stackPorts)} :
       /\ listening' = WithoutPids(listening, stopped)
       /\ IF ok
          THEN /\ trace' = Append(trace, Ev("stack_stop", "stack", <<>>, 0))
               /\ pc' = AfterStop
               /\ error' = error
          ELSE /\ trace' = trace \o <<Ev("stack_stop", "stack", <<>>, 0),
                                      Ev("raise", "stack", <<>>, 0)>>
               /\ pc' = "failed"
               /\ error' = "localStack.stop failed"
  /\ UNCHANGED <<cfgVars, options, envChanges, phase, level, idx, stackPorts,
                 productPortPlan, productConflicts, stackConflicts, lsofOk, psOk,
                 collectVars,
                 primVars>>

\* lines 481 and 508: collectPortConflicts(stackPorts)
StackCollect ==
  /\ pc = "stack_collect"
  /\ stackConflicts' = CollectPortConflicts(Os, stackPorts, productConflicts)
  /\ trace' = Append(trace, Ev("collect", level, PortsOf(stackPorts), 0))
  /\ pc' = "resolve_entry"
  /\ UNCHANGED <<cfgVars, options, envChanges, phase, level, idx, stackPorts,
                 productPortPlan, productConflicts, error, osVars, collectVars,
                 primVars>>

\* lines 499-504: shouldStart is false when the typed answer is a refusal
StartDeclinedIgnored(answer) == FALSE

StartDeclined(answer) == ~ConfirmResult(answer, TRUE)

\* What confirmPrompt resolved to, as a trace event of the stack coordinator.
Answered(answer, defaultValue) ==
  Ev("answer", "stack", <<>>, IF ConfirmResult(answer, defaultValue) THEN 1 ELSE 0)

\* lines 499-504: the answer to "Start required local services now?"
AnswerStartConfirm ==
  /\ pc = "await_start_confirm"
  /\ \E answer \in ConfirmAnswers :
       IF ~StartDeclined(answer)
       THEN /\ level' = "fresh"
            /\ pc' = "stack_collect"
            /\ trace' = Append(trace, Answered(answer, TRUE))
            /\ error' = error
       ELSE /\ error' = "Aborted (local backend not started)."
            /\ pc' = "failed"
            /\ trace' = trace \o <<Answered(answer, TRUE),
                                    Ev("raise", "stack", <<>>, 0)>>
            /\ level' = level
  /\ UNCHANGED <<cfgVars, options, envChanges, phase, idx, stackPorts,
                 productPortPlan, productConflicts, stackConflicts, osVars,
                 collectVars,
                 primVars>>

\* lines 479-488 and 508-516: between the stack-level resolution and
\* localStack.start nothing reads a conflict's newPort, and ctx.options stays
\* as the product-level pass left it
StackWriteBackApplied(opts, conflicts) == ApplyNewPorts(opts, conflicts)

StackWriteBack(opts, conflicts) == opts

\* lines 487-488 and 515-516: await config.localStack.start(baseCtx), which is
\* external and may throw, then return the ignore set.
StackStart ==
  /\ pc = "stack_start"
  /\ \E ok \in BOOLEAN :
       IF ok
       THEN /\ StackReturn(Append(trace, Ev("stack_start", level, <<>>, 0)),
                           PortSet(stackPorts))
       ELSE /\ trace' = trace \o <<Ev("stack_start", level, <<>>, 0),
                                   Ev("raise", "stack", <<>>, 0)>>
            /\ pc' = "failed"
            /\ error' = "localStack.start failed"
            /\ phase' = phase
  /\ options' = StackWriteBack(options, stackConflicts)
  /\ UNCHANGED <<cfgVars, envChanges, level, idx, stackPorts,
                 productPortPlan, productConflicts, stackConflicts, osVars,
                 collectVars,
                 primVars>>

\* line 613: await product.start(baseCtx), the hand-off
ProductStart ==
  /\ pc = "product_start"
  /\ trace' = Append(trace, Ev("product_start", "product", <<>>, 0))
  /\ phase' = NextPhase("product_start")
  /\ pc' = PhaseEntry(NextPhase("product_start"))
  /\ UNCHANGED <<cfgVars, options, envChanges, level, idx, stackPorts,
                 productPortPlan, productConflicts, stackConflicts, error, osVars,
                 collectVars,
                 primVars>>

\* ------------------------------------------------- the operating system

\* Where the run waits for the user, for as long as the user takes.
AwaitPcs ==
  {"await_select", "await_input", "await_confirm", "await_stack_select",
   "await_start_confirm"}

\* A listener exits, or a process that listens nowhere starts listening.
OsChange(l, port, pid) ==
  IF pid \in l[port] THEN WithoutPids(l, {pid})
  ELSE [l EXCEPT ![port] = l[port] \cup {pid}]

\* A new listener is the process with the least pid that listens nowhere.
CanChange(l, port, pid) ==
  \/ pid \in l[port]
  \/ /\ \A q \in DOMAIN l : pid \notin l[q]
     /\ \A y \in Pids : y < pid => \E q \in DOMAIN l : y \in l[q]

\* The listening sockets belong to the operating system, not to the run.
EnvChange ==
  /\ pc \in AwaitPcs
  /\ envChanges < MaxEnvChanges
  /\ \E port \in Ports, pid \in Pids :
       /\ CanChange(listening, port, pid)
       /\ listening' = OsChange(listening, port, pid)
  /\ envChanges' = envChanges + 1
  /\ UNCHANGED <<cfgVars, options, pc, phase, level, idx, stackPorts,
                 productPortPlan, productConflicts, stackConflicts, error, trace,
                 lsofOk, psOk, collectVars,
                 primVars>>

\* -------------------------------------------------------- configurations

Entry(port, service, flexible, optionName) ==
  [port |-> port, desiredService |-> service, flexible |-> flexible,
   optionName |-> optionName]

\* Product port plans: none, the plan of flow.test.ts (a port the stack may
\* own, then a flexible one mapped to an option), two flexible ports mapped
\* to one option, and a flexible port mapped to no option.
ProductPlans ==
  {<<>>,
   <<Entry(1, "auth-emulator", FALSE, ""), Entry(2, "web", TRUE, "port")>>,
   <<Entry(1, "api", TRUE, "port"), Entry(2, "web", TRUE, "port")>>,
   <<Entry(2, "web", TRUE, ""), Entry(1, "api", TRUE, "apiPort")>>}

StackPlans ==
  {<<>>,
   <<Entry(1, "auth-emulator", FALSE, "")>>,
   <<Entry(1, "auth-emulator", TRUE, "port"), Entry(2, "firestore", FALSE, "")>>}

\* config.localStack: absent, start without ports, ports without start, and
\* start with ports, with or without stop.
LocalStacks ==
  {[start |-> FALSE, stop |-> FALSE, ports |-> <<>>],
   [start |-> TRUE, stop |-> FALSE, ports |-> <<>>],
   [start |-> FALSE, stop |-> FALSE,
    ports |-> <<Entry(1, "auth-emulator", FALSE, "")>>]}
  \cup
  {[start |-> TRUE, stop |-> st, ports |-> pl] :
     st \in BOOLEAN, pl \in StackPlans \ {<<>>}}

\* Every process listens on at most one port when the run begins.  The pids
\* are numbered in the order of the ports they hold, from 1 on: any other
\* table is one of these with the processes renamed.
InitialListening ==
  {l \in [Ports -> SUBSET Pids] :
     /\ \A p, q \in Ports : p # q => l[p] \cap l[q] = {}
     /\ \A p, q \in Ports : p < q => \A x \in l[p], y \in l[q] : x < y
     /\ \A x \in UNION {l[p] : p \in Ports} :
          \A y \in Pids : y < x => y \in UNION {l[p] : p \in Ports}}

\* ---------------------------------------------------------- specification

Init ==
  /\ mode \in RunModes
  /\ kill \in BOOLEAN
  /\ yes \in BOOLEAN
  /\ stdinTTY \in BOOLEAN
  /\ stdoutTTY \in BOOLEAN
  /\ localStack \in LocalStacks
  /\ productPlan \in ProductPlans
  /\ options = [o \in OptionNames |-> <<>>]
  /\ listening \in InitialListening
  /\ lsofOk \in BOOLEAN
  /\ psOk = TRUE
  /\ envChanges = 0
  /\ pc = "start"
  /\ phase = "start"
  /\ level = "product"
  /\ idx = 0
  /\ stackPorts = <<>>
  /\ productPortPlan = <<>>
  /\ productConflicts = <<>>
  /\ stackConflicts = <<>>
  /\ error = ""
  /\ trace = <<>>
  /\ collectPlan = <<>>
  /\ collectResults = <<>>
  /\ collectOs = <<>>
  /\ call = NoCall
  /\ env = NoEnv

Next ==
  \/ BuildPlans
  \/ CollectProduct
  \/ ResolveEntry
  \/ ConflictLoop
  \/ AnswerSelect
  \/ AnswerInput
  \/ AnswerConfirm
  \/ DoKill
  \/ ApplyOptions
  \/ StackEntry
  \/ AnswerStackSelect
  \/ StackStop
  \/ StackCollect
  \/ AnswerStartConfirm
  \/ StackStart
  \/ ProductStart
  \/ EnvChange

Spec == Init /\ [][Next]_vars

\* The same runs, followed for what a single resolution pass does in them.
SpecResolve == Init /\ [][Next]_vars

\* ------------------------------------- the collector on its own (SpecCollect)

CollectEntries ==
  {Entry(1, "api", FALSE, ""), Entry(2, "web", TRUE, "port")}

RECURSIVE SeqsUpTo(_, _)
SeqsUpTo(S, n) ==
  IF n = 0 THEN {<<>>}
  ELSE SeqsUpTo(S, n - 1) \cup
       {Append(q, x) : q \in {r \in SeqsUpTo(S, n - 1) : Len(r) = n - 1}, x \in S}

LastResult == IF collectResults = <<>> THEN <<>> ELSE collectResults[Len(collectResults)]

\* One call of collectPortConflicts(collectPlan); the operating system as the
\* call found it and as it left it are recorded with the result.
CollectCall ==
  /\ pc = "collector"
  /\ Len(collectResults) < MaxCollectCalls
  /\ UNCHANGED osVars
  /\ collectResults' =
       Append(collectResults, CollectPortConflicts(Os, collectPlan, LastResult))
  /\ collectOs' =
       Append(collectOs,
              [before |-> Os, after |-> Os',
               raised |-> \E k \in 1..Len(collectPlan) :
                            InspectorRaises(Os, collectPlan[k].port)])
  /\ UNCHANGED <<runVars, collectPlan, primVars>>

\* Between two calls a listener may come or go, and lsof or ps may start or
\* stop working.
CollectEnvChange ==
  /\ pc = "collector"
  /\ envChanges < MaxEnvChanges
  /\ envChanges' = envChanges + 1
  /\ \/ /\ \E port \in Ports, pid \in Pids :
              listening' = [listening EXCEPT ![port] =
                              IF pid \in listening[port]
                              THEN listening[port] \ {pid}
                              ELSE listening[port] \cup {pid}]
        /\ UNCHANGED <<lsofOk, psOk>>
     \/ /\ lsofOk' = ~lsofOk
        /\ UNCHANGED <<listening, psOk>>
     \/ /\ psOk' = ~psOk
        /\ UNCHANGED <<listening, lsofOk>>
  /\ UNCHANGED <<cfgVars, options, pc, phase, level, idx, stackPorts,
                 productPortPlan, productConflicts, stackConflicts, error, trace,
                 collectVars,
                 primVars>>

InitCollect ==
  /\ mode = "dev"
  /\ kill = FALSE
  /\ yes = FALSE
  /\ stdinTTY = FALSE
  /\ stdoutTTY = FALSE
  /\ localStack = [start |-> FALSE, stop |-> FALSE, ports |-> <<>>]
  /\ productPlan = <<>>
  /\ options = [o \in OptionNames |-> <<>>]
  /\ listening \in InitialListening
  /\ lsofOk \in BOOLEAN
  /\ psOk \in BOOLEAN
  /\ envChanges = 0
  /\ pc = "collector"
  /\ phase = "start"
  /\ level = "product"
  /\ idx = 0
  /\ stackPorts = <<>>
  /\ productPortPlan = <<>>
  /\ productConflicts = <<>>
  /\ stackConflicts = <<>>
  /\ error = ""
  /\ trace = <<>>
  /\ collectPlan \in SeqsUpTo(CollectEntries, MaxCollectPlanLen)
  /\ collectResults = <<>>
  /\ collectOs = <<>>
  /\ call = NoCall
  /\ env = NoEnv

NextCollect == CollectCall \/ CollectEnvChange

SpecCollect == InitCollect /\ [][NextCollect]_vars

\* ------------------------------------- library functions on their own

\* The variables of the run that a library function followed on its own
\* does not touch.
unusedVars ==
  <<kill, localStack, productPlan, options, listening, lsofOk, psOk,
    envChanges, phase, level, idx, stackPorts, productPortPlan,
    productConflicts, stackConflicts, collectVars>>
sessionVars == <<mode, yes, stdinTTY, stdoutTTY>>

UnusedByCall ==
  /\ kill = FALSE
  /\ localStack = [start |-> FALSE, stop |-> FALSE, ports |-> <<>>]
  /\ productPlan = <<>>
  /\ options = [o \in OptionNames |-> <<>>]
  /\ listening = [p \in Ports |-> {}]
  /\ lsofOk = TRUE
  /\ psOk = TRUE
  /\ envChanges = 0
  /\ phase = "start"
  /\ level = "product"
  /\ idx = 0
  /\ stackPorts = <<>>
  /\ productPortPlan = <<>>
  /\ productConflicts = <<>>
  /\ stackConflicts = <<>>
  /\ collectPlan = <<>>
  /\ collectResults = <<>>
  /\ collectOs = <<>>

\* ------------------------------------------------------ killPid (SpecKill)

\* line 422: the signals, in the order they are tried
Signals == <<"SIGINT", "SIGTERM", "SIGKILL">>

\* process.kill(pid, signal) throws when the process does not exist (ESRCH)
\* and when it belongs to somebody else (EPERM).
ProcessKillThrows(e, pid) == pid \notin e.alive \/ ~e.owned

\* One call of process.kill as it shows in the trace: 1 when the signal was
\* delivered, 0 when the call threw.
Sent(signal, pid, threw) ==
  Ev("process.kill", signal, <<pid>>, IF threw THEN 0 ELSE 1)

\* lines 426-428: whether an exception of process.kill leaves killPid
KillPidRethrowsUncaught(threw) == threw

KillPidRethrows(threw) == FALSE

ReturnsAfterAnyDelivery(signal, threw) == ~threw

\* line 425: killPid returns once SIGKILL has been sent
ReturnsAfter(signal, threw) == ~threw /\ signal = "SIGKILL"

\* line 421: if (dryRun) return
KillPidEntry ==
  /\ pc = "kill_pid"
  /\ pc' = IF call.dryRun THEN "returned" ELSE "kill_signal"
  /\ UNCHANGED <<call, env, error, trace, sessionVars, unusedVars>>

\* lines 422-429: one turn of the loop over the signals.  A process that got
\* SIGKILL is gone; one that got SIGINT or SIGTERM may exit or carry on.
KillPidSignal ==
  /\ pc = "kill_signal"
  /\ LET signal == Signals[call.i]
         threw == ProcessKillThrows(env, call.pid)
     IN /\ trace' = Append(trace, Sent(signal, call.pid, threw))
        /\ \E dies \in BOOLEAN :
             /\ signal = "SIGKILL" => dies
             /\ env' = IF ~threw /\ dies
                       THEN [env EXCEPT !.alive = env.alive \ {call.pid}]
                       ELSE env
        /\ IF KillPidRethrows(threw)
           THEN /\ pc' = "threw"
                /\ error' = "kill ESRCH"
                /\ call' = call
           ELSE IF ReturnsAfter(signal, threw) \/ call.i = Len(Signals)
           THEN /\ pc' = "returned"
                /\ UNCHANGED <<error, call>>
           ELSE /\ call' = [call EXCEPT !.i = call.i + 1]
                /\ UNCHANGED <<pc, error>>
  /\ UNCHANGED <<sessionVars, unusedVars>>

\* A process exits of its own accord between two signals.
ProcessExits ==
  /\ pc = "kill_signal"
  /\ \E p \in env.alive : env' = [env EXCEPT !.alive = env.alive \ {p}]
  /\ UNCHANGED <<call, pc, error, trace, sessionVars, unusedVars>>

InitKill ==
  /\ UnusedByCall
  /\ mode = "dev"
  /\ yes = FALSE
  /\ stdinTTY = FALSE
  /\ stdoutTTY = FALSE
  /\ pc = "kill_pid"
  /\ error = ""
  /\ trace = <<>>
  /\ call \in [fn : {"killPid"}, pid : Pids, dryRun : BOOLEAN, i : {1}]
  /\ env \in [of : {"processes"}, alive : SUBSET Pids, owned : BOOLEAN]

NextKill == KillPidEntry \/ KillPidSignal \/ ProcessExits

SpecKill == InitKill /\ [][NextKill]_vars

\* killPid is synchronous code: once called it runs to its end, whatever the
\* processes around it do.
KillPidStep == KillPidEntry \/ KillPidSignal

SpecKillRun == InitKill /\ [][NextKill]_vars /\ WF_vars(KillPidStep)

\* ------------------------------------------------ selectPrompt (SpecSelect)

\* A call selectPrompt makes on process.stdin or process.stdout.
Fx(op, n) == Ev(op, "stdin", <<>>, n)

NormalizedDefaultIndexUnchecked(defaultIndex, n) == defaultIndex

\* lines 62-63: a default index outside the options falls back to 0
NormalizedDefaultIndex(defaultIndex, n) ==
  IF defaultIndex >= 0 /\ defaultIndex < n THEN defaultIndex ELSE 0

\* lines 87-90: the arrow keys move the selection around the list
MoveSelection(key, selectedIndex, n) ==
  IF key = "up" THEN (selectedIndex - 1 + n) % n
  ELSE IF key = "down" THEN (selectedIndex + 1) % n
  ELSE selectedIndex

\* What clearScreen or process.stdout.write raises when the terminal is gone.
RenderFailedMessage == "write failed"

\* lines 69-76: cleanup, run by the finally clause
Cleanup == <<Fx("setRawMode", 0), Fx("removeAllListeners", 0)>>

\* lines 56-85: the guards, raw mode, the first rendering and the listener
SelectEntry ==
  /\ pc = "select_prompt"
  /\ IF ~IsInteractive(stdinTTY, stdoutTTY)
     THEN /\ pc' = "threw"
          /\ error' = "Cannot prompt without a TTY"
          /\ UNCHANGED <<call, env, trace>>
     ELSE IF call.nOptions < 2
     THEN /\ pc' = "threw"
          /\ error' = "selectPrompt requires at least 2 options."
          /\ UNCHANGED <<call, env, trace>>
     ELSE LET first == NormalizedDefaultIndex(call.defaultIndex, call.nOptions)
          IN /\ call' = [call EXCEPT !.selectedIndex = first]
             /\ \/ /\ env' = [env EXCEPT !.raw = TRUE, !.keypressListeners = 1]
                   /\ trace' = trace \o <<Fx("emitKeypressEvents", 0),
                                          Fx("setRawMode", 1),
                                          Fx("render", first), Fx("on_keypress", 0)>>
                   /\ pc' = "select_await"
                   /\ error' = error
                \* lines 78-82 raise: the finally clause runs cleanup
                \/ /\ env' = env
                   /\ trace' = trace \o <<Fx("emitKeypressEvents", 0),
                                          Fx("setRawMode", 1),
                                          Fx("render_raises", first)>> \o Cleanup
                   /\ pc' = "threw"
                   /\ error' = RenderFailedMessage
  /\ UNCHANGED <<sessionVars, unusedVars>>

\* lines 85-106: one keypress.  A paused stdin delivers none.  Enter and Ctrl+C
\* resolve the promise, and the finally clause then runs cleanup.
SelectKeypress ==
  /\ pc = "select_await"
  /\ ~env.paused
  /\ call.keys < MaxKeys
  /\ \E key \in {"up", "down", "return", "ctrl_c", "other", "undefined"} :
       IF key \in {"up", "down"}
       THEN LET moved == MoveSelection(key, call.selectedIndex, call.nOptions)
            IN /\ call' = [call EXCEPT !.selectedIndex = moved,
                                       !.keys = call.keys + 1, !.key = key]
               /\ \/ /\ trace' = Append(trace, Fx("render", moved))
                     /\ UNCHANGED <<pc, env, error>>
                  \* lines 101-104 raise inside the listener: the exception
                  \* leaves through the emitter, not through the awaited
                  \* promise, and no handler of selectPrompt sees it
                  \/ /\ trace' = Append(trace, Fx("render_raises", moved))
                     /\ pc' = "crashed"
                     /\ error' = RenderFailedMessage
                     /\ env' = env
       ELSE IF key \in {"return", "ctrl_c"}
       THEN /\ call' = [call EXCEPT !.keys = call.keys + 1, !.key = key,
                                    !.result = IF key = "return"
                                               THEN <<call.selectedIndex>>
                                               ELSE <<"null">>,
                                    !.exitCode = IF key = "ctrl_c" THEN 130
                                                 ELSE call.exitCode]
            /\ trace' = trace \o Cleanup
            /\ env' = [env EXCEPT !.raw = FALSE, !.keypressListeners = 0]
            /\ pc' = "returned"
            /\ error' = error
       ELSE /\ call' = [call EXCEPT !.keys = call.keys + 1, !.key = key]
            /\ UNCHANGED <<pc, env, trace, error>>
  /\ UNCHANGED <<sessionVars, unusedVars>>

InitSelect ==
  /\ UnusedByCall
  /\ mode = "dev"
  /\ yes = FALSE
  /\ stdinTTY \in BOOLEAN
  /\ stdoutTTY \in BOOLEAN
  /\ pc = "select_prompt"
  /\ error = ""
  /\ trace = <<>>
  /\ call \in [fn : {"selectPrompt"}, nOptions : 0..MaxOptions,
               defaultIndex : (0 - 1)..MaxOptions, selectedIndex : {0},
               keys : {0}, key : {"none"}, result : {<<>>}, exitCode : {0}]
  /\ env \in [of : {"stdin"}, paused : BOOLEAN, raw : {FALSE},
              keypressListeners : {0}]

NextSelect == SelectEntry \/ SelectKeypress

SpecSelect == InitSelect /\ [][NextSelect]_vars

\* ----------------------------------------- enforceProdGuard (SpecProdGuard)

\* line 23: without a terminal, prod mode needs --allow-prod
NonInteractiveProdAllowedWithYes(allowProd, y) == allowProd \/ y

NonInteractiveProdAllowed(allowProd, y) == allowProd

\* line 31: with a terminal, --allow-prod or --yes answers the question
ProdConfirmSkipped(allowProd, y) == allowProd \/ y

\* A function of this section returns `value`.
Return(value) ==
  /\ pc' = "returned"
  /\ call' = [call EXCEPT !.result = <<value>>]
  /\ error' = error

\* A function of this section throws.
Throw(msg) ==
  /\ pc' = "threw"
  /\ error' = msg
  /\ call' = call

\* lines 19-36: up to the return, the throw or the question
EnforceProdGuard ==
  /\ pc = "enforce_prod_guard"
  /\ IF mode # "prod"
     THEN Return(call.allowProd) /\ trace' = trace
     ELSE IF ~IsInteractive(stdinTTY, stdoutTTY)
     THEN /\ IF NonInteractiveProdAllowed(call.allowProd, yes)
             THEN Return(TRUE)
             ELSE Throw("Refusing to run in prod mode without --allow-prod in non-interactive mode.")
          /\ trace' = trace
     ELSE IF ProdConfirmSkipped(call.allowProd, yes)
     THEN Return(TRUE) /\ trace' = trace
     ELSE /\ trace' = Append(trace, Ev("confirm", "prod", <<>>, 0))
          /\ pc' = "await_prod_confirm"
          /\ UNCHANGED <<call, error>>
  /\ UNCHANGED <<env, sessionVars, unusedVars>>

\* lines 33-40: the answer to "Prod mode will hit production services. Continue?"
AnswerProdConfirm ==
  /\ pc = "await_prod_confirm"
  /\ \E answer \in ConfirmAnswers :
       /\ env' = [env EXCEPT !.typed = answer]
       /\ IF ConfirmResult(answer, FALSE)
          THEN /\ Return(TRUE)
               /\ trace' = Append(trace, Ev("answer", "prod", <<>>, 1))
          ELSE /\ Throw("Aborted (prod mode not confirmed).")
               /\ trace' = Append(trace, Ev("answer", "prod", <<>>, 0))
  /\ UNCHANGED <<sessionVars, unusedVars>>

InitProdGuard ==
  /\ UnusedByCall
  /\ mode \in Modes
  /\ yes \in BOOLEAN
  /\ stdinTTY \in BOOLEAN
  /\ stdoutTTY \in BOOLEAN
  /\ pc = "enforce_prod_guard"
  /\ error = ""
  /\ trace = <<>>
  /\ call \in [fn : {"enforceProdGuard"}, allowProd : BOOLEAN, result : {<<>>}]
  /\ env = [of |-> "terminal", typed |-> <<>>]

NextProdGuard == EnforceProdGuard \/ AnswerProdConfirm

SpecProdGuard == InitProdGuard /\ [][NextProdGuard]_vars

\* ------------------------------------------------ ensureInstall (SpecInstall)

\* line 30: node_modules is there and --install was not given
AlreadyInstalledIgnoringChoice(hasDeps, installChoice) == hasDeps

AlreadyInstalled(hasDeps, installChoice) == hasDeps /\ installChoice # "true"

\* lines 43-44 and runCommandOrThrow: npm ci is run; a non-zero exit throws.
RunNpmCi ==
  /\ trace' = Append(trace, Ev("npm ci", "install", <<>>, 0))
  /\ IF env.npmCiOk
     THEN pc' = "returned" /\ error' = error
     ELSE pc' = "threw" /\ error' = "Command failed: npm ci"

\* lines 27-41: up to the return, npm ci or the question.  Without a terminal
\* confirmPrompt returns its default, true, and asks nothing.
EnsureInstall ==
  /\ pc = "ensure_install"
  /\ IF call.installChoice = "false"
     THEN pc' = "returned" /\ UNCHANGED <<call, error, trace>>
     ELSE IF AlreadyInstalled(env.hasNodeModules, call.installChoice)
     THEN pc' = "returned" /\ UNCHANGED <<call, error, trace>>
     ELSE IF call.installChoice = "true" \/ yes
     THEN RunNpmCi /\ call' = call
     ELSE IF ~IsInteractive(stdinTTY, stdoutTTY)
     THEN RunNpmCi /\ call' = [call EXCEPT !.confirmed = <<TRUE>>]
     ELSE /\ trace' = Append(trace, Ev("confirm", "install", <<>>, 0))
          /\ pc' = "await_install_confirm"
          /\ UNCHANGED <<call, error>>
  /\ UNCHANGED <<env, sessionVars, unusedVars>>

\* lines 36-44: the answer to "Run npm ci now?"
AnswerInstallConfirm ==
  /\ pc = "await_install_confirm"
  /\ \E answer \in ConfirmAnswers :
       /\ call' = [call EXCEPT !.confirmed = <<ConfirmResult(answer, TRUE)>>]
       /\ IF ConfirmResult(answer, TRUE)
          THEN RunNpmCi
          ELSE pc' = "returned" /\ UNCHANGED <<error, trace>>
  /\ UNCHANGED <<env, sessionVars, unusedVars>>

InitInstall ==
  /\ UnusedByCall
  /\ mode = "dev"
  /\ yes \in BOOLEAN
  /\ stdinTTY \in BOOLEAN
  /\ stdoutTTY \in BOOLEAN
  /\ pc = "ensure_install"
  /\ error = ""
  /\ trace = <<>>
  /\ call \in [fn : {"ensureInstall"},
               installChoice : {"true", "false", "undefined"},
               confirmed : {<<>>}]
  /\ env \in [of : {"disk"}, hasNodeModules : BOOLEAN, npmCiOk : BOOLEAN]

NextInstall == EnsureInstall \/ AnswerInstallConfirm

SpecInstall == InitInstall /\ [][NextInstall]_vars

\* -------------------------------------------- waitForPortOpen (SpecWait)

\* Date.now() - started < timeoutMs (line 388) is false: the wait is over.
TimedOut(now, started, timeoutMs) == ~(now - started < timeoutMs)

\* line 389: a probe that found the port open ends the wait.
ProbeIgnored(open) == FALSE

ProbeSucceeded(open) == open

\* line 390: setTimeout(resolve, intervalMs); Node runs a timer whose delay
\* is less than 1 after 1 ms.
SleepMs(intervalMs) == IF intervalMs < 1 THEN 1 ELSE intervalMs

\* isPortOpen was called and resolved to `open`.
Probed(port, open) == Ev("isPortOpen", "wait", <<port>>, IF open THEN 1 ELSE 0)

\* line 387: started = Date.now()
WaitEntry ==
  /\ pc = "wait_for_port_open"
  /\ call' = [call EXCEPT !.started = env.now]
  /\ pc' = "wait_check"
  /\ UNCHANGED <<sessionVars, unusedVars, env, error, trace>>

\* lines 388 and 392: the loop condition, and the return once it fails
WaitCheck ==
  /\ pc = "wait_check"
  /\ IF TimedOut(env.now, call.started, call.timeoutMs)
     THEN Return(FALSE)
     ELSE pc' = "wait_probe" /\ UNCHANGED <<call, error>>
  /\ UNCHANGED <<sessionVars, unusedVars, env, trace>>

\* line 389: await isPortOpen({host, port, timeoutMs: 500}), which resolves
\* on connect, error or timeout after some time
WaitProbe ==
  /\ pc = "wait_probe"
  /\ \E took \in 0..MaxProbeMs :
       env' = [env EXCEPT !.now = env.now + took]
  /\ trace' = Append(trace, Probed(call.port, env.open))
  /\ IF ProbeSucceeded(env.open)
     THEN Return(TRUE)
     ELSE pc' = "wait_sleep" /\ UNCHANGED <<call, error>>
  /\ UNCHANGED <<sessionVars, unusedVars>>

\* line 390: the pause between two probes; a timer may fire late
WaitSleep ==
  /\ pc = "wait_sleep"
  /\ \E late \in 0..MaxLateMs :
       env' = [env EXCEPT !.now = env.now + SleepMs(call.intervalMs) + late]
  /\ pc' = "wait_check"
  /\ UNCHANGED <<sessionVars, unusedVars, call, error, trace>>

\* Whatever is behind the port starts or stops listening during the wait.
PortChanges ==
  /\ pc \in {"wait_check", "wait_probe", "wait_sleep"}
  /\ env' = [env EXCEPT !.open = ~env.open]
  /\ UNCHANGED <<sessionVars, unusedVars, call, pc, error, trace>>

InitWait ==
  /\ UnusedByCall
  /\ mode = "dev"
  /\ yes = FALSE
  /\ stdinTTY = FALSE
  /\ stdoutTTY = FALSE
  /\ pc = "wait_for_port_open"
  /\ error = ""
  /\ trace = <<>>
  /\ call \in [fn : {"waitForPortOpen"}, port : Ports,
               timeoutMs : -1..MaxTimeoutMs, intervalMs : 0..MaxIntervalMs,
               started : {0}, result : {<<>>}]
  /\ env \in [of : {"clock"}, now : {0}, open : BOOLEAN]

\* The steps of waitForPortOpen itself.
WaitStep == WaitEntry \/ WaitCheck \/ WaitProbe \/ WaitSleep

NextWait == WaitStep \/ PortChanges

\* An awaited probe or timer always resolves, so the function keeps running.
SpecWait == InitWait /\ [][NextWait]_vars /\ WF_vars(WaitStep)

\* ------------------------------------------------ isPortOpen (SpecProbe)

\* Something isPortOpen does with its socket or its promise.
Sk(op, n) == Ev(op, "socket", <<>>, n)

\* lines 358-361: the connect callback
OnConnected == <<Sk("socket.end", 0), Sk("resolve", 1)>>

\* lines 362-369: fail, the handler of 'error' and 'timeout'
FailWithoutDestroy == <<Sk("resolve", 0)>>

Fail == <<Sk("socket.destroy", 0), Sk("resolve", 0)>>

\* resolve(value): the first call settles the promise, later calls do nothing.
Settle(value) ==
  IF call.result = <<>>
  THEN Return(value)
  ELSE UNCHANGED <<pc, call, error>>

\* The socket after the calls in `effects`.
SocketAfter(state, effects) ==
  IF \E i \in 1..Len(effects) : effects[i].op = "socket.destroy" THEN "destroyed"
  ELSE IF \E i \in 1..Len(effects) : effects[i].op = "socket.end" THEN "ended"
  ELSE state

\* lines 357-371: the promise is created, the connection attempt starts and
\* the handlers are registered
ProbeEntry ==
  /\ pc = "is_port_open"
  /\ env' = [env EXCEPT !.state = "connecting"]
  /\ trace' = Append(trace, Sk("createConnection", call.timeoutMs))
  /\ pc' = "probe_await"
  /\ UNCHANGED <<sessionVars, unusedVars, call, error>>

\* The peer accepted: the connect callback runs.
SocketConnect ==
  /\ env.state = "connecting"
  /\ env.peer = "accepts"
  /\ trace' = trace \o <<Sk("connect", 0)>> \o OnConnected
  /\ env' = [env EXCEPT !.state = SocketAfter(env.state, OnConnected)]
  /\ Settle(TRUE)
  /\ UNCHANGED <<sessionVars, unusedVars>>

\* 'error': the connection was refused, the attempt was given up by the
\* operating system, or the peer reset the connection it had accepted.
SocketError ==
  /\ \/ env.state = "connecting" /\ env.peer = "refuses"
     \/ env.state = "connecting" /\ env.peer = "silent" /\ call.timeoutMs = 0
     \/ env.state = "ended" /\ env.resets
  /\ trace' = trace \o <<Sk("error", 0)>> \o Fail
  /\ env' = [env EXCEPT !.state = SocketAfter(env.state, Fail)]
  /\ Settle(FALSE)
  /\ UNCHANGED <<sessionVars, unusedVars>>

\* 'timeout': the socket was idle for timeoutMs (0 switches the timer off),
\* before the connection was made or after it.
SocketTimeout ==
  /\ call.timeoutMs > 0
  /\ \/ env.state = "connecting" /\ env.peer = "silent"
     \/ env.state = "ended" /\ env.lingers
  /\ trace' = trace \o <<Sk("timeout", 0)>> \o Fail
  /\ env' = [env EXCEPT !.state = SocketAfter(env.state, Fail)]
  /\ Settle(FALSE)
  /\ UNCHANGED <<sessionVars, unusedVars>>

InitProbe ==
  /\ UnusedByCall
  /\ mode = "dev"
  /\ yes = FALSE
  /\ stdinTTY = FALSE
  /\ stdoutTTY = FALSE
  /\ pc = "is_port_open"
  /\ error = ""
  /\ trace = <<>>
  /\ call \in [fn : {"isPortOpen"}, port : Ports,
               timeoutMs : 0..MaxSocketTimeoutMs, result : {<<>>}]
  /\ env \in [of : {"socket"}, state : {"none"},
              peer : {"accepts", "refuses", "silent"},
              resets : BOOLEAN, lingers : BOOLEAN]

NextProbe == ProbeEntry \/ SocketConnect \/ SocketError \/ SocketTimeout

\* A connection attempt always ends: the peer answers, the socket's timer
\* fires, or the operating system gives the attempt up.
SpecProbe == InitProbe /\ [][NextProbe]_vars /\ WF_vars(NextProbe)

\* ------------------------------------------------------------- properties

TraceIdx == 1..Len(trace)
Happened(op) == \E i \in TraceIdx : trace[i].op = op
StackLevels == {"stack", "restart", "fresh"}
ResolveLevels == {"product", "restart", "fresh"}
NonInteractive == ~(stdinTTY /\ stdoutTTY)
ConflictsAt(lv) == IF lv = "product" THEN productConflicts ELSE stackConflicts

\* C1: localStack.start is invoked only after the product-level
\* resolvePortConflictsInteractively has returned normally, and never in a
\* run whose product-level resolution raised.
C1_StartAfterProductResolution ==
  /\ \A i \in TraceIdx :
       trace[i].op = "stack_start" =>
         \E j \in 1..(i - 1) :
           trace[j].op = "resolve_return" /\ trace[j].lv = "product"
  /\ (\E j \in TraceIdx :
        trace[j].op \in {"raise", "uncaught"} /\ trace[j].lv = "product")
       => ~Happened("stack_start")

\* A local run that resolved a product-level conflict and went on to start
\* the stack.
C1_Witness ==
  /\ mode = "local"
  /\ Len(productConflicts) > 0
  /\ Happened("stack_start")
  /\ pc = "done"

\* C2: in local mode no port of the stack's port plan is handed to the
\* product-level collectPortConflicts, so no product-level conflict is on a
\* stack-owned port.
C2_ProductCollectExcludesStackPorts ==
  mode = "local" =>
    /\ \A i \in TraceIdx :
         (trace[i].op = "collect" /\ trace[i].lv = "product") =>
           \A k \in 1..Len(trace[i].ports) :
             trace[i].ports[k] \notin PortSet(localStack.ports)
    /\ \A k \in 1..Len(productConflicts) :
         productConflicts[k].port \notin PortSet(localStack.ports)

\* The plan of flow.test.ts: the product wants ports 1 and 2, the stack owns
\* port 1 and something listens on it, and the product-level collect saw only
\* port 2.
C2_Witness ==
  /\ mode = "local"
  /\ PortsOf(productPlan) = <<1, 2>>
  /\ 1 \in PortSet(localStack.ports)
  /\ listening[1] # {}
  /\ lsofOk
  /\ \E i \in TraceIdx :
       trace[i].op = "collect" /\ trace[i].lv = "product" /\ trace[i].ports = <<2>>

KillGuardMessage == "--kill in non-interactive mode requires --yes"

StillInUseMessage == "Port is still in use after kill attempts."

\* The conflict a trace event of a resolution pass is about.
ConflictOf(e) ==
  CHOOSE c \in Range(ConflictsAt(e.lv)) : c.port = e.ports[1]

\* C4: a conflict resolved by kill has killPid called on every listener
\* recorded in it, then its port is inspected again; the resolver raises the
\* still-in-use error when the inspection finds a pid, and otherwise goes on
\* (returning when the conflict is the last one).
C4_KillThenRequery ==
  \A i \in TraceIdx :
    trace[i].op = "requery" =>
      LET c == ConflictOf(trace[i])
          n == Len(c.listeners)
          cs == ConflictsAt(trace[i].lv)
      IN /\ n > 0
         /\ i > n
         /\ \A k \in 1..n :
              trace[i - n + k - 1] =
                Ev("kill", trace[i].lv, <<c.port>>, c.listeners[k].pid)
         /\ (i = Len(trace) \/ (i + 1 = Len(trace) /\ trace[i + 1].op = "raise"))
              => trace[i].n = Len(GetListeningPidsOnPort(Os, c.port))
         /\ trace[i].n > 0 =>
              /\ i + 1 = Len(trace)
              /\ trace[i + 1].op = "raise"
              /\ pc = "failed"
              /\ error = StillInUseMessage
         /\ trace[i].n = 0 =>
              /\ i < Len(trace) => trace[i + 1].op # "raise"
              /\ (i < Len(trace) /\ c = cs[Len(cs)]) =>
                   trace[i + 1].op = "resolve_return"
              /\ i = Len(trace) => pc \in {"conflict_loop", "do_kill"}

\* A conflict with two listeners was killed, the inspection found nobody
\* left and the run completed.
C4_Witness ==
  /\ pc = "done"
  /\ \E i \in TraceIdx :
       /\ trace[i].op = "requery"
       /\ trace[i].n = 0
       /\ Len(ConflictOf(trace[i]).listeners) = 2

\* The listeners of a port as the inspector reports them: none when lsof is
\* missing or fails.
Reported(os, port) == IF os.lsofOk THEN os.listening[port] ELSE {}

\* C5: collectPortConflicts returns exactly the plan entries whose port has
\* at least one (reported) listener, in the plan's order; an entry without
\* listeners never appears.
C5_CollectExact ==
  \A c \in 1..Len(collectResults) :
    LET os == collectOs[c].before
        res == collectResults[c]
        kept == {k \in 1..Len(collectPlan) :
                   Reported(os, collectPlan[k].port) # {}}
    IN /\ Len(res) = Cardinality(kept)
       /\ \A k \in kept :
            LET j == Cardinality({m \in kept : m <= k})
            IN /\ res[j].port = collectPlan[k].port
               /\ res[j].desiredService = collectPlan[k].desiredService
               /\ res[j].flexible = collectPlan[k].flexible
               /\ res[j].optionName = collectPlan[k].optionName
               /\ {res[j].listeners[x].pid : x \in 1..Len(res[j].listeners)}
                    = os.listening[collectPlan[k].port]
       /\ \A j \in 1..Len(res) : Len(res[j].listeners) > 0

\* A two-entry plan whose first port is free and whose second is taken: the
\* call returned the second entry alone.
C5_Witness ==
  /\ Len(collectPlan) = 2
  /\ collectPlan[1].port # collectPlan[2].port
  /\ Len(collectResults) > 0
  /\ collectOs[1].before.listening[collectPlan[1].port] = {}
  /\ Len(collectResults[1]) = 1
  /\ collectResults[1][1].port = collectPlan[2].port

\* C6: two calls of collectPortConflicts in succession on one plan, with the
\* operating system unchanged in between, return identical lists, and a call
\* leaves the operating system as it found it.
C6_CollectIdempotent ==
  /\ \A c \in 1..Len(collectResults) : collectOs[c].after = collectOs[c].before
  /\ \A c \in 1..(Len(collectResults) - 1) :
       collectOs[c + 1].before = collectOs[c].after
         => collectResults[c + 1] = collectResults[c]

\* Two calls in succession that found a conflict, nothing having changed.
C6_Witness ==
  /\ Len(collectResults) >= 2
  /\ collectOs[2].before = collectOs[1].after
  /\ Len(collectResults[1]) > 0
  /\ envChanges = 0

\* C7: in local mode with a start routine, when a stack port is open and the
\* session is not interactive, handleLocalStack returns at once: no stop, no
\* start, no prompt, no collect and no kill on the stack's ports, whatever
\* kill and yes are.
C7_NonInteractiveReuse ==
  \A i \in TraceIdx :
    (trace[i].op = "probe" /\ trace[i].n = 1 /\ NonInteractive) =>
      /\ i < Len(trace)
      /\ trace[i + 1] =
           Ev("stack_return", "stack", SortedSeq(PortSet(localStack.ports)), 0)
      /\ \A j \in TraceIdx : trace[j].lv \in StackLevels => j \in {i, i + 1}
      /\ \A j \in TraceIdx : j > i =>
           trace[j].op \notin {"stack_stop", "stack_start", "select", "confirm",
                                "input", "collect", "kill", "requery"}

\* A run with --kill and --yes and no terminal found the stack up, left it
\* alone and completed.
C7_Witness ==
  /\ kill /\ yes /\ NonInteractive
  /\ pc = "done"
  /\ lsofOk
  /\ \E i \in TraceIdx : trace[i].op = "probe" /\ trace[i].n = 1

Started == Happened("product_start")

\* C8 as stated: a product-level conflict resolved by choosing another port
\* has a positive newPort, and when it names an option, ctx.options holds that
\* newPort under the name when product.start is invoked.
C8_AsStated ==
  \A k \in 1..Len(productConflicts) :
    LET c == productConflicts[k]
    IN c.newPort # <<>> =>
         /\ c.newPort[1] > 0
         /\ (c.optionName # "" /\ Started) => options[c.optionName] = c.newPort

\* C8 (amended): newPort is positive, and when product.start is invoked
\* ctx.options holds, under each option name, the newPort of the last
\* reassigned conflict that names the option.
C8_ReassignedPortWrittenBack ==
  \A k \in 1..Len(productConflicts) :
    LET c == productConflicts[k]
        later == {m \in (k + 1)..Len(productConflicts) :
                    /\ productConflicts[m].newPort # <<>>
                    /\ productConflicts[m].optionName = c.optionName}
    IN c.newPort # <<>> =>
         /\ c.newPort[1] > 0
         /\ (c.optionName # "" /\ Started /\ later = {})
              => options[c.optionName] = c.newPort

\* The hand-off happened with a reassigned port written into the options.
C8_Witness ==
  /\ Started
  /\ \E k \in 1..Len(productConflicts) :
       /\ productConflicts[k].newPort # <<>>
       /\ productConflicts[k].optionName # ""
       /\ options[productConflicts[k].optionName] = productConflicts[k].newPort

\* C9: outside local mode, or without a start routine, handleLocalStack does
\* nothing but return an empty ignore set: no probe, no prompt, no collect or
\* resolve, no stop and no start.
C9_StackNoOp ==
  ~(mode = "local" /\ localStack.start) =>
    /\ \A i \in TraceIdx :
         trace[i].lv \in StackLevels => trace[i] = Ev("stack_return", "stack", <<>>, 0)
    /\ \A i \in TraceIdx :
         trace[i].op \notin {"probe", "stack_stop", "stack_start"}
    /\ \A i, j \in TraceIdx :
         (trace[i].op = "stack_return" /\ j > i) => trace[j].op = "product_start"
    /\ stackConflicts = <<>>

\* A local run whose stack declares a port, with a listener on it, but no
\* start routine: the coordinator returned and the run completed.
C9_Witness ==
  /\ mode = "local"
  /\ ~localStack.start
  /\ localStack.ports # <<>>
  /\ AnyUp(Os, localStack.ports)
  /\ Happened("stack_return")
  /\ pc = "done"

\* C10: whenever handleLocalStack invokes localStack.start, a collect on the
\* stack's own ports and the resolution of its result have returned normally
\* before; start is not invoked when that resolution raised.
C10_StackResolvedBeforeStart ==
  /\ \A i \in TraceIdx :
       trace[i].op = "stack_start" =>
         /\ i >= 3
         /\ trace[i - 1].op = "resolve_return"
         /\ trace[i - 1].lv = trace[i].lv
         /\ trace[i].lv \in {"restart", "fresh"}
         /\ \E j \in 1..(i - 2) :
              /\ trace[j] = Ev("collect", trace[i].lv, PortsOf(localStack.ports), 0)
              /\ \A m \in (j + 1)..(i - 1) :
                   trace[m].lv = trace[i].lv /\ trace[m].op # "raise"
  /\ (\E j \in TraceIdx :
        trace[j].op \in {"raise", "uncaught"} /\ trace[j].lv \in {"restart", "fresh"})
       => ~Happened("stack_start")

\* The user chose restart, a conflict left on a stack port after the stop was
\* resolved, and the stack was started.
C10_Witness ==
  /\ level = "restart"
  /\ Len(stackConflicts) > 0
  /\ Happened("stack_start")

StackSelectEvent == Ev("select", "stack", <<>>, 0)

\* C11: when the user chooses restart, localStack.stop comes first (only when
\* the config provides it), then the collect and the resolution on the
\* stack's ports, then localStack.start; when the user chooses reuse none of
\* stop, collect, resolve and start is invoked.
C11_RestartOrder ==
  /\ \A i \in TraceIdx :
       trace[i].op = "stack_stop" =>
         /\ localStack.stop
         /\ level = "restart"
         /\ i > 1
         /\ trace[i - 1] = StackSelectEvent
  /\ \A i \in TraceIdx :
       (trace[i].op = "collect" /\ trace[i].lv = "restart") =>
         /\ i > 1
         /\ trace[i].ports = PortsOf(localStack.ports)
         /\ IF localStack.stop
            THEN trace[i - 1].op = "stack_stop"
            ELSE trace[i - 1] = StackSelectEvent
  /\ \A i \in TraceIdx :
       (trace[i].op = "stack_start" /\ trace[i].lv = "restart") =>
         /\ trace[i - 1].op = "resolve_return" /\ trace[i - 1].lv = "restart"
         /\ \E j \in 1..(i - 2) : trace[j].op = "collect" /\ trace[j].lv = "restart"
  /\ \A i \in TraceIdx :
       (trace[i] = StackSelectEvent /\ i < Len(trace)
          /\ trace[i + 1].op = "stack_return") =>
         /\ \A j \in TraceIdx :
              /\ trace[j].op \notin {"stack_stop", "stack_start"}
              /\ trace[j].lv \notin {"restart", "fresh"}
         /\ stackConflicts = <<>>
         /\ level = "product"

\* The user chose restart with a stop routine configured; the stack was
\* stopped, its ports were checked and it was started again.
C11_Witness ==
  /\ level = "restart"
  /\ localStack.stop
  /\ Happened("stack_stop")
  /\ Happened("stack_start")
  /\ pc = "done"

StartDeclinedMessage == "Aborted (local backend not started)."

\* C12: with no stack port open in local mode, handleLocalStack goes on to
\* start the stack (the collect and resolution on the stack's ports, then
\* localStack.start) when yes is set, without prompting, or when the start
\* confirmation is answered affirmatively; a declined confirmation raises
\* the abort and neither localStack.start nor product.start is invoked.
C12_StartWhenNoneOpen ==
  /\ \A i \in TraceIdx :
       trace[i] = Ev("confirm", "stack", <<>>, 0) =>
         ~yes /\ IsInteractive(stdinTTY, stdoutTTY)
  /\ (yes /\ StackEngaged(mode, localStack) /\ phase = "handle_local_stack"
        /\ pc # "stack_entry"
        /\ ~(\E i \in TraceIdx : trace[i].op = "probe" /\ trace[i].n = 1))
       => /\ level = "fresh"
          /\ error # StartDeclinedMessage
          /\ \A i \in TraceIdx : trace[i].op \notin {"answer"}
  /\ \A i \in TraceIdx :
       (trace[i].op = "answer" /\ trace[i].n = 1) =>
         /\ level = "fresh"
         /\ i = Len(trace) => pc = "stack_collect"
         /\ i < Len(trace) =>
              trace[i + 1] = Ev("collect", "fresh", PortsOf(localStack.ports), 0)
  /\ \A i \in TraceIdx :
       (trace[i].op = "resolve_return" /\ trace[i].lv = "fresh") =>
         /\ i = Len(trace) => pc = "stack_start"
         /\ i < Len(trace) => trace[i + 1].op = "stack_start"
  /\ \A i \in TraceIdx :
       (trace[i].op = "answer" /\ trace[i].n = 0) =>
         /\ i + 1 = Len(trace)
         /\ trace[i + 1].op = "raise"
         /\ pc = "failed"
         /\ error = StartDeclinedMessage
         /\ ~Happened("stack_start")
         /\ ~Happened("product_start")

\* The user declined to start the stack and the run ended there.
C12_Witness ==
  /\ error = StartDeclinedMessage
  /\ pc = "failed"
  /\ \E i \in TraceIdx : trace[i].op = "answer" /\ trace[i].n = 0

\* C13: a fatal condition raised by the conflict resolution or by the stack
\* coordinator is the last thing the run does: no later conflict is
\* processed, the options are not written afterwards, and neither
\* localStack.start nor product.start is invoked afterwards.
C13_FatalEndsRun ==
  /\ \A i \in TraceIdx :
       trace[i].op = "raise" =>
         /\ i = Len(trace)
         /\ pc = "failed"
         /\ error # ""
  /\ pc = "failed" =>
       /\ Len(trace) > 0
       /\ trace[Len(trace)].op = "raise"
       /\ ~Happened("product_start")
       /\ \A i \in TraceIdx :
            trace[i].op = "stack_start" => i + 1 = Len(trace)
       /\ phase = "product_conflicts" =>
            /\ options = [o \in OptionNames |-> <<>>]
            /\ ~Happened("write_option")
            /\ ~Happened("stack_start")

\* The first of two product-level conflicts could not be freed: the run
\* ended with the second conflict untouched.
C13_Witness ==
  /\ pc = "failed"
  /\ error = StillInUseMessage
  /\ level = "product"
  /\ Len(productConflicts) = 2
  /\ idx = 1
  /\ productConflicts[2].newPort = <<>>

CannotPromptMessage == "Cannot prompt without a TTY"

\* C19 as stated: without a terminal the resolver's selection branch is never
\* reached, because whenever the conflicts are non-empty the resolution runs
\* in forced-kill mode.
C19_AsStated ==
  NonInteractive =>
    /\ error # CannotPromptMessage
    /\ Happened("summary") => kill

\* C19 (amended): without a terminal no selection is ever shown or answered.
\* Nothing upstream forces forced-kill mode: with kill unset and a non-empty
\* list the resolver prints the summary and calls selectPrompt, which raises
\* at once; conflicts are acted on only in forced-kill mode.
C19_NoSelectionWithoutTerminal ==
  NonInteractive =>
    /\ \A i \in TraceIdx :
         trace[i].op \notin {"select", "input", "confirm", "newPort", "answer"}
    /\ Happened("kill") => kill
    /\ \A k \in 1..Len(productConflicts) : productConflicts[k].newPort = <<>>
    /\ \A i \in TraceIdx :
         (trace[i].op = "summary" /\ ~kill) =>
           \/ i = Len(trace) /\ pc = "conflict_loop" /\ idx = 1
           \/ /\ i + 1 = Len(trace)
              /\ trace[i + 1].op = "raise"
              /\ pc = "failed"
              /\ error = CannotPromptMessage

\* Without a terminal and without --kill, a product-level conflict ended the
\* run in selectPrompt's refusal.
C19_Witness ==
  /\ NonInteractive
  /\ ~kill
  /\ Len(productConflicts) > 0
  /\ pc = "failed"
  /\ error = CannotPromptMessage

\* C20: a replacement port that fails validation makes the input primitive
\* ask again: the resolution raises nothing and the process does not end,
\* and newPort is only ever set from a value that passed validation.
C20_AsStated ==
  /\ pc # "crashed"
  /\ ~Happened("uncaught")
  /\ \A i \in TraceIdx : trace[i].op = "newPort" => trace[i].n > 0

\* C14: getListeningPidsOnPort never raises; when lsof is unavailable or
\* exits non-zero it returns the empty list, so collectPortConflicts reports
\* no conflict for the port instead of failing.
C14_InspectorNeverRaises ==
  \A c \in 1..Len(collectResults) :
    LET os == collectOs[c].before
    IN /\ ~collectOs[c].raised
       /\ \A port \in Ports :
            (~os.lsofOk \/ os.listening[port] = {}) =>
              /\ ExecLsof(os, port).threw
              /\ GetListeningPidsOnPort(os, port) = <<>>
       /\ ~os.lsofOk => collectResults[c] = <<>>

\* lsof was unavailable while a port of the plan had a listener: the call
\* returned no conflict.
C14_Witness ==
  \E c \in 1..Len(collectResults) :
    /\ ~collectOs[c].before.lsofOk
    /\ \E k \in 1..Len(collectPlan) :
         collectOs[c].before.listening[collectPlan[k].port] # {}
    /\ collectResults[c] = <<>>
    /\ ~collectOs[c].raised

\* C15: killPid with dryRun sends no signal; otherwise it tries SIGINT, SIGTERM
\* and SIGKILL in this order, goes on after a send that failed (also when the
\* process is already gone), stops after a delivered SIGKILL, and never
\* raises.
C15_KillPidSignals ==
  /\ pc # "threw"
  /\ error = ""
  /\ call.dryRun => trace = <<>> /\ pc \in {"kill_pid", "returned"}
  /\ Len(trace) <= Len(Signals)
  /\ \A i \in TraceIdx :
       /\ trace[i].op = "process.kill"
       /\ trace[i].lv = Signals[i]
       /\ trace[i].ports = <<call.pid>>
       /\ (trace[i].lv = "SIGKILL" /\ trace[i].n = 1) =>
            i = Len(trace) /\ pc = "returned"
       /\ (trace[i].n = 0 /\ i < Len(Signals)) =>
            \/ i < Len(trace)
            \/ pc = "kill_signal" /\ call.i = i + 1
  /\ (pc = "returned" /\ ~call.dryRun) => Len(trace) = Len(Signals)

\* SIGINT was delivered and the process exited; SIGTERM and SIGKILL then
\* found no process, and killPid returned all the same.
C15_Witness ==
  /\ call.fn = "killPid"
  /\ pc = "returned"
  /\ Len(trace) = 3
  /\ trace[1].n = 1
  /\ trace[2].n = 0
  /\ trace[3].n = 0

\* The calls of one kind selectPrompt has made so far.
CountOf(op) == Cardinality({i \in TraceIdx : trace[i].op = op})

\* C16: called while stdin is paused, selectPrompt resumes stdin before it
\* starts awaiting keypresses, and when it completes it has paused stdin
\* again exactly once, besides toggling raw mode.
C16_AsStated ==
  /\ (pc = "select_await" /\ env.paused) => CountOf("resume") >= 1
  /\ pc = "returned" =>
       /\ CountOf("pause") = 1
       /\ CountOf("setRawMode") = 2

RefusingProdMessage ==
  "Refusing to run in prod mode without --allow-prod in non-interactive mode."

\* C17: in prod mode enforceProdGuard returns only when allowProd is set, or
\* the session is interactive and yes is set or the user confirmed; without a
\* terminal and without allowProd it raises even under yes; outside prod mode
\* it returns allowProd as given and asks nothing.
C17_ProdGuard ==
  /\ (mode = "prod" /\ pc = "returned") =>
       /\ call.result = <<TRUE>>
       /\ \/ call.allowProd
          \/ /\ IsInteractive(stdinTTY, stdoutTTY)
             /\ yes \/ (\E i \in TraceIdx : trace[i].op = "answer" /\ trace[i].n = 1)
  /\ (mode = "prod" /\ NonInteractive /\ ~call.allowProd
        /\ pc # "enforce_prod_guard") =>
       /\ pc = "threw"
       /\ error = RefusingProdMessage
       /\ trace = <<>>
  /\ (mode # "prod" /\ pc # "enforce_prod_guard") =>
       /\ pc = "returned"
       /\ call.result = <<call.allowProd>>
       /\ trace = <<>>
  /\ \A i \in TraceIdx :
       (trace[i].op = "answer" /\ trace[i].n = 0) =>
         pc = "threw" /\ error = "Aborted (prod mode not confirmed)."

\* Prod mode without a terminal and without --allow-prod was refused although
\* --yes was given.
C17_Witness ==
  /\ call.fn = "enforceProdGuard"
  /\ mode = "prod"
  /\ NonInteractive
  /\ yes
  /\ ~call.allowProd
  /\ pc = "threw"

\* When ensureInstall runs npm ci.
InstallWanted ==
  \/ call.installChoice = "true"
  \/ /\ call.installChoice = "undefined"
     /\ ~env.hasNodeModules
     /\ yes \/ call.confirmed = <<TRUE>>

\* C18: ensureInstall runs npm ci exactly when installChoice is true, or
\* installChoice is undefined, node_modules is absent and yes is set or the
\* confirmation came back accepted; with installChoice false, or with
\* node_modules present and installChoice undefined, it neither runs npm ci
\* nor asks.
C18_EnsureInstall ==
  /\ Happened("npm ci") => InstallWanted
  /\ pc \in {"returned", "threw"} => (Happened("npm ci") <=> InstallWanted)
  /\ CountOf("npm ci") <= 1
  /\ (call.installChoice = "false"
        \/ (env.hasNodeModules /\ call.installChoice = "undefined")) =>
       /\ trace = <<>>
       /\ call.confirmed = <<>>
       /\ pc \in {"ensure_install", "returned"}
  /\ Happened("confirm") => (~yes /\ call.installChoice = "undefined")

\* --install with node_modules already there: npm ci was run, nothing asked.
C18_Witness ==
  /\ call.fn = "ensureInstall"
  /\ call.installChoice = "true"
  /\ env.hasNodeModules
  /\ trace = <<Ev("npm ci", "install", <<>>, 0)>>
  /\ pc = "returned"

\* The pids recorded in a conflict, and those of every conflict of a list.
RecordedPids(c) == {c.listeners[k].pid : k \in 1..Len(c.listeners)}
RecordedListeners(conflicts) ==
  [k \in 1..Len(conflicts) |-> conflicts[k].listeners]

\* The pids killPid was called on in the step that just ended.
JustKilled ==
  {trace'[j].n : j \in {k \in Len(trace) + 1..Len(trace') : trace'[k].op = "kill"}}

\* C21 as stated: a kill terminates the set of pids listening on the port at
\* the time of the kill, whatever happened between the collection and the
\* user's choice.
C21_AsStated ==
  pc = "do_kill" =>
    Range(KillTargets(CurConflicts[idx])) = listening[CurConflicts[idx].port]

\* C21: every inspection reads the operating system afresh, yet a conflict
\* keeps the listeners found when it was collected: a kill terminates exactly
\* those pids, even if listeners died or new ones appeared between the
\* collection and the user's choice; only the inspection after the kill sees
\* the port as it then is.
C21_KillsRecordedListeners ==
  [][/\ pc = "collect_product" =>
          \A k \in 1..Len(productConflicts') :
            RecordedPids(productConflicts'[k]) =
              listening[productConflicts'[k].port]
     /\ pc = "stack_collect" =>
          \A k \in 1..Len(stackConflicts') :
            RecordedPids(stackConflicts'[k]) =
              listening[stackConflicts'[k].port]
     /\ pc # "collect_product" =>
          RecordedListeners(productConflicts') = RecordedListeners(productConflicts)
     /\ pc # "stack_collect" =>
          RecordedListeners(stackConflicts') = RecordedListeners(stackConflicts)
     /\ pc = "do_kill" =>
          /\ JustKilled = RecordedPids(CurConflicts[idx])
          /\ trace'[Len(trace) + Len(CurConflicts[idx].listeners) + 1] =
               Ev("requery", level, <<CurConflicts[idx].port>>,
                  Len(GetListeningPidsOnPort(
                        [listening |-> listening', lsofOk |-> lsofOk,
                         psOk |-> psOk], CurConflicts[idx].port)))
     /\ pc # "do_kill" => JustKilled = {}]_vars

\* While the user was choosing, another process began to listen on the port:
\* the recorded pids were killed, the newcomer was not, and the inspection
\* after the kill found it.
C21_Witness ==
  /\ pc = "failed"
  /\ error = StillInUseMessage
  /\ \E i \in TraceIdx :
       /\ trace[i].op = "requery"
       /\ trace[i].n > 0
       /\ listening[trace[i].ports[1]] # {}
       /\ listening[trace[i].ports[1]] \cap RecordedPids(ConflictOf(trace[i])) = {}

DeclinedKillMessage == "Aborted (user declined to kill processes)."

\* The index of the first killPid call of the run of calls that event i of
\* the trace belongs to.
RECURSIVE FirstKillOf(_)
FirstKillOf(i) ==
  IF i > 1 /\ trace[i - 1].op = "kill" /\ trace[i - 1].ports = trace[i].ports
              /\ trace[i - 1].lv = trace[i].lv
  THEN FirstKillOf(i - 1) ELSE i

\* C22: killPid is called for a conflict without a confirmation prompt only
\* when kill or yes is set; otherwise the user is asked to confirm right
\* before, and when the user declines the resolver raises the declined-kill
\* error with no killPid call made for that conflict.
C22_KillNeedsConfirmation ==
  /\ \A i \in TraceIdx :
       trace[i].op = "kill" =>
         LET f == FirstKillOf(i)
         IN \/ kill \/ yes
            \/ /\ f > 1
               /\ trace[f - 1] = Ev("confirm", trace[i].lv, trace[i].ports, 0)
  /\ \A i \in TraceIdx :
       (trace[i].op = "confirm" /\ trace[i].lv \in ResolveLevels) =>
         /\ ~kill /\ ~yes
         /\ i > 1 /\ trace[i - 1] = Ev("select", trace[i].lv, trace[i].ports, 0)
         /\ i < Len(trace) => trace[i + 1].op \in {"kill", "raise"}
         /\ (i < Len(trace) /\ trace[i + 1].op = "raise") =>
              /\ i + 1 = Len(trace)
              /\ pc = "failed"
              /\ error = DeclinedKillMessage
  /\ error = DeclinedKillMessage =>
       /\ pc = "failed"
       /\ Len(trace) >= 2
       /\ trace[Len(trace) - 1].op = "confirm"
       /\ trace[Len(trace) - 1].lv \in ResolveLevels
       /\ \A i \in TraceIdx :
            trace[i].op = "kill" =>
              ~(trace[i].lv = trace[Len(trace) - 1].lv
                  /\ trace[i].ports = trace[Len(trace) - 1].ports)

\* Without kill and yes the user chose to kill, was asked to confirm and
\* declined: the run ended with the declined-kill error and no killPid call.
C22_Witness ==
  /\ ~kill /\ ~yes
  /\ pc = "failed"
  /\ error = DeclinedKillMessage
  /\ trace[Len(trace) - 1].op = "confirm"
  /\ ~Happened("kill")

\* What a resolution pass asks the user.
ResolverPrompts == {"select", "input", "confirm"}

\* Conflict c of pass lv was killed and found free before event i.
KilledBefore(c, lv, i) ==
  \E j \in 1..(i - 1) :
    /\ trace[j] = Ev("requery", lv, <<c.port>>, 0)
    /\ j > Len(c.listeners)
    /\ \A k \in 1..Len(c.listeners) :
         trace[j - Len(c.listeners) + k - 1] =
           Ev("kill", lv, <<c.port>>, c.listeners[k].pid)

\* C23: when kill is set, no resolution pass shows a selection, an input or a
\* confirmation prompt and no conflict is given a new port; every conflict of
\* a pass that returned, flexible or not, had killPid called on its listeners.
C23_ForcedKillAsksNothing ==
  kill =>
    /\ \A i \in TraceIdx :
         ~(trace[i].op \in ResolverPrompts /\ trace[i].lv \in ResolveLevels)
    /\ ~Happened("newPort")
    /\ \A lv \in ResolveLevels :
         \A k \in 1..Len(ConflictsAt(lv)) : ConflictsAt(lv)[k].newPort = <<>>
    /\ pc \notin {"await_select", "await_input", "await_confirm"}
    /\ \A i \in TraceIdx :
         trace[i].op = "resolve_return" =>
           \A k \in 1..Len(ConflictsAt(trace[i].lv)) :
             KilledBefore(ConflictsAt(trace[i].lv)[k], trace[i].lv, i)

\* With kill set a pass over two conflicts, one of them flexible, returned
\* after killing the listeners of both.
C23_Witness ==
  /\ kill
  /\ \E i \in TraceIdx :
       /\ trace[i].op = "resolve_return"
       /\ Len(ConflictsAt(trace[i].lv)) = 2
       /\ \E k \in 1..2 : ConflictsAt(trace[i].lv)[k].flexible
       /\ \A k \in 1..2 : KilledBefore(ConflictsAt(trace[i].lv)[k], trace[i].lv, i)

\* C24: 'change' is offered only for a flexible conflict, so newPort is set
\* only on flexible conflicts; after the selection for a conflict that is not
\* flexible comes its kill (confirmed first where that is asked) or the end
\* of the run.
C24_ChangeOnlyWhenFlexible ==
  /\ \A lv \in ResolveLevels :
       \A k \in 1..Len(ConflictsAt(lv)) :
         ConflictsAt(lv)[k].newPort # <<>> => ConflictsAt(lv)[k].flexible
  /\ \A i \in TraceIdx :
       /\ trace[i].op \in {"input", "newPort"} => ConflictOf(trace[i]).flexible
       /\ (trace[i].op = "select" /\ trace[i].lv \in ResolveLevels
             /\ ~ConflictOf(trace[i]).flexible /\ i < Len(trace)) =>
                 \/ trace[i + 1].op = "raise"
                 \/ trace[i + 1] \in
                      {Ev(o, trace[i].lv, trace[i].ports, n) :
                         o \in {"confirm", "kill"}, n \in {0} \cup Pids}
  /\ pc = "await_input" => CurConflicts[idx].flexible

\* One pass asked about a conflict that is not flexible, which was killed,
\* and about a flexible one, which was given a new port; the run completed.
C24_Witness ==
  /\ pc = "done"
  /\ \E i \in TraceIdx :
       /\ trace[i].op = "select"
       /\ trace[i].lv = "product"
       /\ ~ConflictOf(trace[i]).flexible
       /\ ConflictOf(trace[i]).newPort = <<>>
  /\ \E k \in 1..Len(productConflicts) : productConflicts[k].newPort # <<>>

\* C25: a conflict resolved by reassignment is neither inspected nor killed:
\* its selection and input are followed by the assignment, then by the next
\* conflict's selection or the pass's return; no killPid call and no
\* inspection after a kill is made for it, the pass collects nothing again,
\* and the new port is not looked at.
C25_ReassignmentInspectsNothing ==
  \A i \in TraceIdx :
    trace[i].op = "newPort" =>
      /\ i > 2
      /\ trace[i - 1] = Ev("input", trace[i].lv, trace[i].ports, 0)
      /\ trace[i - 2] = Ev("select", trace[i].lv, trace[i].ports, 0)
      /\ \A j \in TraceIdx :
           /\ ~(/\ trace[j].op \in {"kill", "requery"}
                /\ trace[j].lv = trace[i].lv
                /\ trace[j].ports = trace[i].ports)
           /\ ~(j > i /\ trace[j].op = "collect" /\ trace[j].lv = trace[i].lv)
      /\ i < Len(trace) =>
           /\ trace[i + 1].op \in {"select", "resolve_return"}
           /\ trace[i + 1].op = "select" => trace[i + 1].ports # trace[i].ports
      /\ i = Len(trace) => pc = "conflict_loop"

\* product.start was invoked although another process listens on the port a
\* conflict was moved to.
C25_Witness ==
  /\ Started
  /\ \E k \in 1..Len(productConflicts) :
       /\ productConflicts[k].newPort # <<>>
       /\ productConflicts[k].newPort[1] \in Ports
       /\ listening[productConflicts[k].newPort[1]] # {}
       /\ ~\E j \in TraceIdx :
             /\ trace[j].op = "kill"
             /\ trace[j].ports = <<productConflicts[k].port>>

\* How often the entry of ctx.options named `name` has been written.
WritesTo(name) ==
  Cardinality({i \in TraceIdx : trace[i].op = "write_option" /\ trace[i].lv = name})

\* How often the conflict on `port` of pass lv has been given a new port.
Reassignments(lv, port) ==
  Cardinality({i \in TraceIdx : trace[i] \in
                 {Ev("newPort", lv, <<port>>, n) : n \in 1..99}})

\* C26 as stated: within one resolution pass each conflict's newPort is
\* assigned at most once, and for every conflict with newPort set and an
\* optionName the entry of ctx.options under that name has been overwritten
\* exactly once when product.start is invoked.
C26_AsStated ==
  \A lv \in ResolveLevels :
    \A k \in 1..Len(ConflictsAt(lv)) :
      LET c == ConflictsAt(lv)[k]
      IN /\ Reassignments(lv, c.port) <= 1
         /\ (Started /\ c.newPort # <<>> /\ c.optionName # "") =>
              WritesTo(c.optionName) = 1

\* What a resolution pass does for one conflict.
PerConflictOps == {"select", "input", "confirm", "newPort", "kill", "requery"}

PerConflict(e) == e.op \in PerConflictOps /\ e.lv \in ResolveLevels

\* The place of an event's conflict in its pass's list.
PosOf(e) ==
  CHOOSE k \in 1..Len(ConflictsAt(e.lv)) : ConflictsAt(e.lv)[k].port = e.ports[1]

\* Event e ends the handling of its conflict.
Completes(e) == e.op = "newPort" \/ (e.op = "requery" /\ e.n = 0)

\* C27: conflicts are resolved one at a time in list order: a pass starts
\* with the first conflict, what it does for conflict i+1 begins only after
\* conflict i was given a new port or was killed and inspected again, and a
\* pass returns only when the last conflict has been handled so.
C27_OneAtATimeInOrder ==
  \A i \in TraceIdx :
    /\ (PerConflict(trace[i]) /\ i > 1) =>
         /\ trace[i - 1].op = "summary" => PosOf(trace[i]) = 1
         /\ (PerConflict(trace[i - 1]) /\ trace[i - 1].ports # trace[i].ports) =>
              /\ trace[i - 1].lv = trace[i].lv
              /\ Completes(trace[i - 1])
              /\ PosOf(trace[i]) = PosOf(trace[i - 1]) + 1
         /\ trace[i - 1].op \in {"summary"} \cup PerConflictOps
    /\ (PerConflict(trace[i]) /\ i < Len(trace)
          /\ trace[i + 1].op = "resolve_return") =>
         /\ Completes(trace[i])
         /\ PosOf(trace[i]) = Len(ConflictsAt(trace[i].lv))
    /\ (PerConflict(trace[i]) /\ i = Len(trace) /\ pc # "crashed") =>
         idx = PosOf(trace[i]) + (IF Completes(trace[i]) THEN 1 ELSE 0)

\* The first of two conflicts was killed and inspected again, then the second
\* was asked about and given a new port, and the pass returned.
C27_Witness ==
  \E i \in TraceIdx :
    /\ i > 4
    /\ trace[i].op = "resolve_return"
    /\ trace[i - 1].op = "newPort"
    /\ PosOf(trace[i - 1]) = 2
    /\ trace[i - 3].op = "select"
    /\ trace[i - 4] = Ev("requery", trace[i - 1].lv,
                         <<ConflictsAt(trace[i - 1].lv)[1].port>>, 0)

\* Where resolvePortConflictsInteractively is running.
ResolverPcs ==
  {"resolve_entry", "conflict_loop", "await_select", "await_input",
   "await_confirm", "do_kill"}

\* The new ports given so far to the conflicts of a list.
NewPorts(conflicts) == [k \in 1..Len(conflicts) |-> conflicts[k].newPort]

\* Every new port given in `before` is still there in `after`.
NewPortsKept(before, after) ==
  /\ Len(after) = Len(before)
  /\ \A k \in 1..Len(before) :
       before[k].newPort # <<>> => after[k].newPort = before[k].newPort

AbortedMessage == "Aborted due to port conflict."

\* C28: nothing is rolled back on abort.  A step of the resolver never adds a
\* listener, the kills of a conflict leave exactly the processes the next
\* inspection finds, a new port once assigned is never taken back, and the
\* step that raises and everything after it leave the earlier kills and
\* assignments as they are.
C28_NoRollback ==
  [][/\ (pc \in ResolverPcs /\ envChanges' = envChanges) =>
          /\ \A p \in Ports : listening'[p] \subseteq listening[p]
          /\ NewPortsKept(productConflicts, productConflicts')
          /\ NewPortsKept(stackConflicts, stackConflicts')
     /\ pc = "do_kill" =>
          Cardinality(listening'[CurConflicts[idx].port]) = trace'[Len(trace')
            - (IF error' # "" THEN 1 ELSE 0)].n
     /\ (error' # "" /\ pc \in ResolverPcs) =>
          /\ pc' \in {"failed", "crashed"}
          /\ options' = options
          /\ pc # "do_kill" => listening' = listening
     /\ error # "" => UNCHANGED vars]_vars

\* The first conflict of a pass was killed and its port found free; the user
\* then aborted at the second conflict, and the port is still free.
C28_Witness ==
  /\ pc = "failed"
  /\ error = AbortedMessage
  /\ Len(trace) > 3
  /\ trace[Len(trace) - 1].op = "select"
  /\ PosOf(trace[Len(trace) - 1]) = 2
  /\ trace[Len(trace) - 2] =
       Ev("requery", level, <<CurConflicts[1].port>>, 0)
  /\ listening[CurConflicts[1].port] = {}

\* The summaries a pass has written.
SummariesOf(lv) == {i \in TraceIdx : trace[i].op = "summary" /\ trace[i].lv = lv}

\* C29: whenever a resolution pass has prompted, killed or reassigned for a
\* conflict, the summary naming every conflict of its list, in order, was
\* written exactly once by that pass, before the first such action.
C29_SummaryFirst ==
  /\ \A i \in TraceIdx :
       PerConflict(trace[i]) =>
         \E j \in 1..(i - 1) :
           /\ SummariesOf(trace[i].lv) = {j}
           /\ trace[j].ports = PortsOf(ConflictsAt(trace[i].lv))
           /\ \A m \in 1..(j - 1) :
                ~(PerConflict(trace[m]) /\ trace[m].lv = trace[i].lv)
  /\ pc \in (ResolverPcs \ {"resolve_entry"}) =>
       /\ Cardinality(SummariesOf(level)) = 1
       /\ \A j \in SummariesOf(level) : trace[j].ports = PortsOf(CurConflicts)

\* A pass over two conflicts wrote one summary naming both and then asked
\* about the first.
C29_Witness ==
  /\ pc = "await_select"
  /\ Len(CurConflicts) = 2
  /\ Len(trace) > 1
  /\ trace[Len(trace)] = Ev("select", level, <<CurConflicts[1].port>>, 0)
  /\ trace[Len(trace) - 1] =
       Ev("summary", level, <<CurConflicts[1].port, CurConflicts[2].port>>, 0)

\* What holds of a waitForPortOpen call at every moment.
WaitForPortOpenSafe ==
  /\ \A i \in TraceIdx :
       trace[i].n = 1 =>
         /\ i = Len(trace)
         /\ pc = "returned"
         /\ call.result = <<TRUE>>
  /\ pc = "wait_probe" => env.now - call.started < call.timeoutMs
  /\ pc = "returned" =>
       /\ call.result \in {<<TRUE>>, <<FALSE>>}
       /\ call.result = <<TRUE>> =>
            trace # <<>> /\ trace[Len(trace)] = Probed(call.port, TRUE)
       /\ call.result = <<FALSE>> =>
            /\ env.now - call.started >= call.timeoutMs
            /\ \A i \in TraceIdx : trace[i] = Probed(call.port, FALSE)
  /\ call.timeoutMs <= 0 =>
       /\ trace = <<>>
       /\ pc = "returned" => call.result = <<FALSE>>

\* C30: waitForPortOpen always terminates.  It returns true as soon as one
\* probe reports the port open and never probes after that; it returns false
\* once timeoutMs has elapsed with no successful probe, and probes only while
\* the timeout has not elapsed; with a timeout of zero or less it returns
\* false without probing.
C30_WaitForPortOpenTerminates ==
  []WaitForPortOpenSafe /\ <>(pc = "returned")

\* The first probe found the port closed, the port opened during the pause
\* and the second probe ended the wait with true.
C30_Witness ==
  /\ call.fn = "waitForPortOpen"
  /\ pc = "returned"
  /\ call.result = <<TRUE>>
  /\ trace = <<Probed(call.port, FALSE), Probed(call.port, TRUE)>>

\* The calls of resolve so far, and the socket events so far.
ResolveCalls == {i \in TraceIdx : trace[i].op = "resolve"}
SocketEvents == {i \in TraceIdx : trace[i].op \in {"connect", "error", "timeout"}}

\* What holds of an isPortOpen call at every moment.
IsPortOpenSafe ==
  /\ call.result = <<>> <=> ResolveCalls = {}
  /\ call.result # <<>> =>
       LET first == CHOOSE i \in ResolveCalls : \A j \in ResolveCalls : i <= j
           event == CHOOSE i \in SocketEvents : \A j \in SocketEvents : i <= j
       IN /\ pc = "returned"
          /\ call.result = <<trace[first].n = 1>>
          /\ event < first
          /\ call.result = <<TRUE>> <=> trace[event].op = "connect"
          /\ call.result = <<FALSE>> <=> trace[event].op \in {"error", "timeout"}
          /\ \E k \in (event + 1)..(first - 1) :
               trace[k].op \in {"socket.end", "socket.destroy"}
          /\ env.state \in {"ended", "destroyed"}
  /\ \A i \in ResolveCalls :
       /\ i > 1
       /\ trace[i - 1].op = (IF trace[i].n = 1 THEN "socket.end" ELSE "socket.destroy")

\* C31: isPortOpen resolves exactly once, to true when the first thing the
\* socket reports is the connection and to false when it is an error or a
\* timeout; end or destroy has been called on the socket before each call of
\* resolve, and calls of resolve after the first change nothing.
C31_IsPortOpenResolvesOnce ==
  /\ []IsPortOpenSafe
  /\ [][call.result # <<>> => call.result' = call.result]_vars
  /\ <>(call.result # <<>>)

\* The connection was made and answered with true; the idle timer fired
\* afterwards, the socket was destroyed and the answer stayed true.
C31_Witness ==
  /\ call.fn = "isPortOpen"
  /\ call.result = <<TRUE>>
  /\ env.state = "destroyed"
  /\ Cardinality(ResolveCalls) = 2
  /\ trace[Len(trace)] = Sk("resolve", 0)

\* C32: whenever a selectPrompt call that switched raw mode on is over (an
\* option was chosen, the prompt was cancelled, or rendering raised), raw mode
\* is off again and no keypress listener is left.
C32_AsStated ==
  (/\ call.fn = "selectPrompt"
   /\ pc \in {"returned", "threw", "crashed"}
   /\ \E i \in TraceIdx : trace[i] = Fx("setRawMode", 1)) =>
    /\ ~env.raw
    /\ env.keypressListeners = 0
    /\ SubSeq(trace, Len(trace) - 1, Len(trace)) = Cleanup

\* The selection selectPrompt starts from: what its first rendering shows.
FirstRendered ==
  LET renders == {i \in TraceIdx : trace[i].op \in {"render", "render_raises"}}
  IN trace[CHOOSE i \in renders : \A j \in renders : i <= j].n

\* What holds of the selection once selectPrompt is past its guards.
SelectionInRange ==
  (call.fn = "selectPrompt" /\ pc \in {"select_await", "returned", "crashed"}) =>
    /\ call.selectedIndex \in 0..(call.nOptions - 1)
    /\ FirstRendered = (IF call.defaultIndex \in 0..(call.nOptions - 1)
                        THEN call.defaultIndex ELSE 0)
    /\ pc = "returned" =>
         \/ call.key = "return" /\ call.result = <<call.selectedIndex>>
         \/ call.key = "ctrl_c" /\ call.result = <<"null">>

\* What one keypress does to the selection.
KeypressMoves ==
  (pc = "select_await" /\ call'.keys = call.keys + 1) =>
    LET last == call.nOptions - 1
        at == call.selectedIndex
    IN CASE call'.key = "up" ->
              call'.selectedIndex = (IF at = 0 THEN last ELSE at - 1)
         [] call'.key = "down" ->
              call'.selectedIndex = (IF at = last THEN 0 ELSE at + 1)
         [] call'.key = "return" ->
              pc' = "returned" /\ call'.result = <<at>>
         [] call'.key = "ctrl_c" ->
              pc' = "returned" /\ call'.result = <<"null">>
         [] OTHER ->
              call'.selectedIndex = at /\ pc' = pc /\ call'.result = <<>>

\* C39: the selection of selectPrompt is always one of the options: it starts
\* at defaultIndex, or at 0 when defaultIndex is out of range; up and down
\* move it by one with wrap-around at both ends; Enter returns the option
\* under it, Ctrl+C returns null, and any other key leaves it where it is.
C39_SelectionStaysInRange == []SelectionInRange /\ [][KeypressMoves]_vars

\* A default beyond the three options started the selection at the first
\* one; Up wrapped it to the last, and Enter returned the last option.
C39_Witness ==
  /\ call.fn = "selectPrompt"
  /\ call.nOptions = 3
  /\ call.defaultIndex = 3
  /\ pc = "returned"
  /\ call.key = "return"
  /\ call.selectedIndex = 2
  /\ call.keys = 2
  /\ \E i, j \in TraceIdx : i < j /\ trace[i] = Fx("render", 0)
                            /\ trace[j] = Fx("render", 2)

\* What killPid has done so far: the signals in their order, each once.
SignalsInOrder ==
  /\ Len(trace) <= Len(Signals)
  /\ \A i \in TraceIdx : /\ trace[i].op = "process.kill"
                         /\ trace[i].lv = Signals[i]
                         /\ trace[i].ports = <<call.pid>>

\* Whatever killPid does after its entry is the next send: nothing comes
\* between two sends, and the outcome of a send does not change the next.
NextSendFollows ==
  (pc = "kill_signal" /\ <<pc, call, trace, error>>' # <<pc, call, trace, error>>) =>
    /\ Len(trace) < Len(Signals)
    /\ \E n \in {0, 1} :
         trace' = Append(trace, Ev("process.kill", Signals[Len(trace) + 1],
                                   <<call.pid>>, n))
    /\ error' = error

\* C38: a killPid call without dryRun tries SIGINT, SIGTERM and SIGKILL, each
\* exactly once and one right after the other, whether the earlier sends were
\* delivered or failed and whether the process was still there; it always
\* gets as far as trying SIGKILL.
C38_AllThreeSignalsAttempted ==
  /\ []SignalsInOrder
  /\ [][NextSendFollows]_vars
  /\ [](pc = "returned" /\ ~call.dryRun => Len(trace) = Len(Signals))
  /\ (~call.dryRun ~> (pc = "returned" /\ Len(trace) = Len(Signals)
                       /\ trace[Len(Signals)].lv = "SIGKILL"))

\* The process was gone before killPid was called: all three sends failed,
\* SIGKILL among them, and killPid returned.
C38_Witness ==
  /\ call.fn = "killPid"
  /\ ~call.dryRun
  /\ pc = "returned"
  /\ Len(trace) = 3
  /\ \A i \in 1..3 : trace[i].n = 0
  /\ trace[3].lv = "SIGKILL"

\* C33: a resolution handed an empty list of conflicts returns at once,
\* whatever kill, yes and the terminals are: its return is the very next
\* thing after the collection, with no summary, prompt, kill or error.
C33_EmptyListReturnsAtOnce ==
  \A i \in TraceIdx :
    (trace[i].op = "collect" /\ Len(ConflictsAt(trace[i].lv)) = 0) =>
      IF i = Len(trace)
      THEN pc = "resolve_entry" /\ error = ""
      ELSE trace[i + 1] = Ev("resolve_return", trace[i].lv, <<>>, 0)

\* Forced kill without yes and without a terminal, the combination the guard
\* refuses, and no conflict: the resolution returned and the product started.
C33_Witness ==
  /\ kill /\ ~yes /\ ~stdinTTY /\ ~stdoutTTY
  /\ Len(productPortPlan) > 0
  /\ Len(productConflicts) = 0
  /\ \E i \in TraceIdx : trace[i] = Ev("resolve_return", "product", <<>>, 0)
  /\ Started

\* The product-level resolution has returned normally.
ProductResolved == \E i \in TraceIdx : /\ trace[i].op = "resolve_return"
                                       /\ trace[i].lv = "product"

Invoked(op) == {i \in TraceIdx : trace[i].op = op}

\* C35: in every run localStack.stop, localStack.start and product.start are
\* each invoked at most once; stop is invoked only when the user, asked at a
\* terminal, chose restart, and before start; product.start is invoked only
\* right after handleLocalStack returned, and nothing of the run follows it.
C35_StopStartProductOrder ==
  /\ Cardinality(Invoked("stack_stop")) <= 1
  /\ Cardinality(Invoked("stack_start")) <= 1
  /\ Cardinality(Invoked("product_start")) <= 1
  /\ \A i \in Invoked("stack_stop") :
       /\ IsInteractive(stdinTTY, stdoutTTY)
       /\ level = "restart"
       /\ i > 1
       /\ trace[i - 1] = Ev("select", "stack", <<>>, 0)
       /\ \A j \in Invoked("stack_start") : i < j
  /\ \A i \in Invoked("product_start") :
       /\ i = Len(trace)
       /\ i > 1
       /\ trace[i - 1].op = "stack_return"
       /\ pc = "done"
       /\ error = ""
  /\ \A i \in TraceIdx :
       trace[i].op = "raise" => Invoked("product_start") = {}

\* The user chose restart: the stack was stopped, inspected, started again,
\* and the product was started last.
C35_Witness ==
  /\ pc = "done"
  /\ \E i, j \in TraceIdx :
       /\ i < j
       /\ trace[i].op = "stack_stop"
       /\ trace[j].op = "stack_start"
       /\ j + 2 = Len(trace)
  /\ trace[Len(trace)].op = "product_start"

\* C36: without a terminal, in local mode with a start routine and no stack
\* port found open, handleLocalStack asks nothing and never raises the
\* "local backend not started" abort, with yes or without: it goes straight
\* to the collect on the stack's ports, and once their resolution has
\* returned it invokes localStack.start.
C36_UnattendedStartNeverDeclined ==
  (StackEngaged(mode, localStack) /\ NonInteractive) =>
    /\ error # StartDeclinedMessage
    /\ pc \notin {"await_start_confirm", "await_stack_select"}
    /\ \A i \in TraceIdx :
         /\ trace[i].lv = "stack" => trace[i].op \notin {"confirm", "answer", "select"}
         /\ (trace[i].op = "probe" /\ trace[i].n = 0) =>
              IF i = Len(trace)
              THEN pc = "stack_collect" /\ level = "fresh"
              ELSE trace[i + 1].op = "collect" /\ trace[i + 1].lv = "fresh"
         /\ (trace[i].op = "resolve_return" /\ trace[i].lv = "fresh") =>
              IF i = Len(trace)
              THEN pc = "stack_start"
              ELSE trace[i + 1] = Ev("stack_start", "fresh", <<>>, 0)

\* No terminal and no yes: the stack's ports were probed and found closed,
\* and the stack and then the product were started with nothing asked.
C36_Witness ==
  /\ StackEngaged(mode, localStack)
  /\ NonInteractive
  /\ ~yes
  /\ \E i \in TraceIdx : trace[i].op = "probe" /\ trace[i].n = 0
  /\ \E i \in TraceIdx : trace[i] = Ev("stack_start", "fresh", <<>>, 0)
  /\ Started

\* handleLocalStack has been entered in this run.
StackEntered ==
  \/ phase = "handle_local_stack" /\ pc # "stack_entry"
  \/ Happened("stack_return")

\* C37: a stack with a start routine and no ports, in local mode, is never
\* probed and never offered for reuse or restart: handleLocalStack takes the
\* fresh-start path, where it invokes localStack.start unless the user
\* declines at the confirmation, and it returns the empty ignore set.
C37_PortlessStackStartsFresh ==
  (StackEngaged(mode, localStack) /\ localStack.ports = <<>>) =>
    /\ stackPorts = <<>>
    /\ pc \notin {"await_stack_select", "stack_stop"}
    /\ level # "restart"
    /\ \A i \in TraceIdx :
         /\ trace[i].op \notin {"probe", "stack_stop"}
         /\ trace[i].lv = "stack" => trace[i].op # "select"
         /\ trace[i].op = "stack_start" => trace[i].lv = "fresh"
         /\ trace[i].op = "stack_return" =>
              /\ trace[i].ports = <<>>
              /\ i > 3
              /\ trace[i - 1] = Ev("stack_start", "fresh", <<>>, 0)
              /\ trace[i - 2] = Ev("resolve_return", "fresh", <<>>, 0)
              /\ trace[i - 3] = Ev("collect", "fresh", <<>>, 0)
    /\ StackEntered =>
         \/ Invoked("stack_start") # {}
         \/ pc \in {"await_start_confirm", "stack_collect", "resolve_entry",
                    "stack_start"}
         \/ pc = "failed" /\ error = StartDeclinedMessage

\* A stack with a start routine and no ports: the user confirmed, the stack
\* was started, handleLocalStack returned the empty set and the product
\* started.
C37_Witness ==
  /\ StackEngaged(mode, localStack)
  /\ localStack.ports = <<>>
  /\ \E i \in TraceIdx : /\ i < Len(trace)
                         /\ trace[i] = Ev("answer", "stack", <<>>, 1)
  /\ \E i \in TraceIdx : trace[i] = Ev("stack_return", "stack", <<>>, 0)
  /\ Started

====
